---- MODULE Spec2Model ----
(***************************************************************************)
(* LUDA escrow engine: Offer / Request / Shipment records, the escrow      *)
(* (custody) operations on the DLU token ledger, the one-time keys and the *)
(* users' reputation counters, as driven by Processor::process.            *)
(*                                                                         *)
(* Conventions                                                             *)
(*  - A method of a record (e.g. Offer::complete_offer) is an operator     *)
(*    that returns the in-memory objects as the method leaves them, also   *)
(*    on an early return: [res, rec, ... , ledger].                        *)
(*  - A command of the processor (e.g. CompleteOffer) is an action: it     *)
(*    loads the records, calls the method and stores the records the       *)
(*    processor serializes back, only when the method returned Ok.  A      *)
(*    token transfer is a cross-program call on the ledger and takes       *)
(*    effect when it is made.                                              *)
(*  - The &'static str errors of the methods are named by the DLUError     *)
(*    kind their message corresponds to.                                   *)
(*  - Strings that no transition reads (names, locations) are left out of  *)
(*    the records.  A one-time key is a number; the empty string is 0.     *)
(***************************************************************************)
EXTENDS Integers, FiniteSets, Sequences, TLC

VARIABLES
    ledger,     \* DLU token balance of every account (spl-token ledger)
    users,      \* persisted User records, by account key
    offer,      \* persisted Offer record (NoRecord before ListOffer)
    request,    \* persisted Request record
    shipment,   \* persisted Shipment record
    nonce,      \* per record kind, how many key generations were persisted
    now,        \* Utc::now(), in ticks of HoursPerTick hours
    locked,     \* history: amount locked by each deal's successful list and accept
    last,       \* history: the last command and its result
    km,         \* KeyManager: deal_keys, shipment_keys, used_keys
    validated,  \* history: the keys validate_and_use_key returned true for, the keys
                \* presented again after that, and the keys it returned true for twice
    settled,    \* history: per record kind, the successful complete and fail calls
    released,   \* history: per record kind, the tokens its commands moved out of custody
    paid        \* history: per record kind, the times complete paid the provider

vars == <<ledger, users, offer, request, shipment, nonce, now, locked, last, km, validated, settled, released, paid>>

---------------------------------------------------------------------------
(* Bounds of the model *)

\* largest payment / insurance a List command carries
MaxPayment == 2
\* the clock runs from tick 0 to tick MaxTick
MaxTick == 2
\* DLU each participant holds initially
InitialBalance == 2
\* key generations persisted per record kind
MaxKeyGens == 1
\* KeyManager: generate calls per run
MaxGenerate == 2
\* deals listed in one run
MaxDeals == 1
\* deals listed in one run when they reference one custody account
MaxSharedDeals == 2
\* outcomes marked on one participant in one run of the reputation counters alone
MaxOutcomes == 12

(* Program constants *)

\* Duration::hours(24)
GraceHours == 24
\* one tick of the model clock, in hours
HoursPerTick == 24
\* u64: the width is scaled down to 8 bits, so 2^64 becomes 2^8
U64Modulus == 256

Participants == {"alice", "bob", "carol"}
EscrowAccounts == {"escrow_offer", "escrow_request", "escrow_shipment"}
PENALTY_ACCOUNT == "penalty"
Accounts == Participants \cup EscrowAccounts \cup {PENALTY_ACCOUNT}

Kinds == {"offer", "request", "shipment"}
Statuses == {"Listed", "Accepted", "Completed", "Failed", "Expired", "Canceled"}
Terminal == {"Completed", "Failed", "Expired", "Canceled"}

Amounts == 1..MaxPayment
MeetingTimes == {0}

NoRecord == [status |-> "NoRecord"]
NoUser == [pubkey |-> "None"]

---------------------------------------------------------------------------
(* u64 arithmetic (wrapping, as in a release build) *)

u64_add(a, b) == (a + b) % U64Modulus
u64_sub(a, b) == (a - b + U64Modulus) % U64Modulus
u64_mul(a, b) == (a * b) % U64Modulus

---------------------------------------------------------------------------
(* user.rs *)

\* The f32 literals of update_status, each with the midpoint n / d between the literal and
\* the f32 just below it: a quotient rounds (to nearest, ties to even) to at least the
\* literal iff it lies above the midpoint, or on it when the literal's mantissa is even.
\* 0.9f32 = 15099494 / 2^24, 0.7f32 = 11744051 / 2^24, 0.5f32 = 2^23 / 2^24,
\* 0.2f32 = 13421773 / 2^26.
F32Literal ==
    [nine_tenths |-> [n |-> 30198987, d |-> 33554432, even |-> TRUE],
     seven_tenths |-> [n |-> 23488101, d |-> 33554432, even |-> FALSE],
     half |-> [n |-> 33554431, d |-> 67108864, even |-> TRUE],
     two_tenths |-> [n |-> 26843545, d |-> 134217728, even |-> FALSE]]

\* (successful as f32 / total as f32) >= literal, for counters an f32 holds exactly
f32_quotient_ge(successful, total, literal) ==
    IF literal.even THEN successful * literal.d >= literal.n * total
    ELSE successful * literal.d > literal.n * total

\* variant of UserStatusOf that makes a participant Credible from 10 operations on
UserStatusOfCredibleFromTen(total_operations, successful_operations) ==
    IF total_operations < 3 THEN "New"
    ELSE IF total_operations >= 10 /\ successful_operations = total_operations THEN "Credible"
    ELSE IF f32_quotient_ge(successful_operations, total_operations, F32Literal.nine_tenths)
    THEN "Reliable"
    ELSE IF f32_quotient_ge(successful_operations, total_operations, F32Literal.seven_tenths)
    THEN "Risky"
    ELSE IF f32_quotient_ge(successful_operations, total_operations, F32Literal.half)
    THEN "Unreliable"
    ELSE IF f32_quotient_ge(successful_operations, total_operations, F32Literal.two_tenths)
    THEN "Suspicious"
    ELSE "Fraud"

UserStatusOf(total_operations, successful_operations) ==
    IF total_operations < 3 THEN "New"
    ELSE IF total_operations > 10 /\ successful_operations = total_operations THEN "Credible"
    ELSE IF f32_quotient_ge(successful_operations, total_operations, F32Literal.nine_tenths)
    THEN "Reliable"
    ELSE IF f32_quotient_ge(successful_operations, total_operations, F32Literal.seven_tenths)
    THEN "Risky"
    ELSE IF f32_quotient_ge(successful_operations, total_operations, F32Literal.half)
    THEN "Unreliable"
    ELSE IF f32_quotient_ge(successful_operations, total_operations, F32Literal.two_tenths)
    THEN "Suspicious"
    ELSE "Fraud"

User_update_status(u) ==
    [u EXCEPT !.status = UserStatusOf(u.total_deals + u.total_shipments,
                                      u.successful_deals + u.successful_shipments)]

User_new(pubkey, balance) ==
    [pubkey |-> pubkey, wallet_balance |-> balance, status |-> "New",
     total_deals |-> 0, successful_deals |-> 0, failed_deals |-> 0,
     total_shipments |-> 0, successful_shipments |-> 0, failed_shipments |-> 0]

\* variant of mark_deal that counts a failed outcome only in the total
mark_deal_total_only_on_failure(u, successful) ==
    LET u1 == [u EXCEPT !.total_deals = @ + 1]
        u2 == IF successful THEN [u1 EXCEPT !.successful_deals = @ + 1] ELSE u1
    IN User_update_status(u2)

mark_deal(u, successful) ==
    LET u1 == [u EXCEPT !.total_deals = @ + 1]
        u2 == IF successful THEN [u1 EXCEPT !.successful_deals = @ + 1]
              ELSE [u1 EXCEPT !.failed_deals = @ + 1]
    IN User_update_status(u2)

mark_shipment(u, successful) ==
    LET u1 == [u EXCEPT !.total_shipments = @ + 1]
        u2 == IF successful THEN [u1 EXCEPT !.successful_shipments = @ + 1]
              ELSE [u1 EXCEPT !.failed_shipments = @ + 1]
    IN User_update_status(u2)

---------------------------------------------------------------------------
(* dlu_token.rs, escrow.rs *)

get_balance(l, account) == l[account]

\* spl-token transfer: fails, moving nothing, when the source holds less than amount
transfer(l, src, dst, amount) ==
    IF l[src] < amount
    THEN [ok |-> FALSE, ledger |-> l]
    ELSE LET l1 == [l EXCEPT ![src] = @ - amount]
         IN [ok |-> TRUE, ledger |-> [l1 EXCEPT ![dst] = @ + amount]]

lock_funds(l, user_account, escrow_account, amount) ==
    transfer(l, user_account, escrow_account, amount)

\* variant: pays the penalty account, as transfer_to_penalty does
release_funds_to_penalty(l, escrow_account, recipient_account, amount) ==
    transfer(l, escrow_account, PENALTY_ACCOUNT, amount)

release_funds(l, escrow_account, recipient_account, amount) ==
    transfer(l, escrow_account, recipient_account, amount)

transfer_to_penalty(l, escrow_account, amount) ==
    transfer(l, escrow_account, PENALTY_ACCOUNT, amount)

---------------------------------------------------------------------------
(* onetimekeys.rs: a generated key is a fresh, non-empty string *)

EmptyKey == 0
BogusKey == 1

KindIndex(kind) == CASE kind = "offer" -> 0 [] kind = "request" -> 1 [] kind = "shipment" -> 2
RoleIndex(role) == CASE role = "seller" -> 0 [] role = "sender" -> 0
                     [] role = "buyer" -> 1 [] role = "carrier" -> 1
                     [] role = "recipient" -> 2

\* the n-th key generated for a role of a record kind: distinct for distinct (kind, role, n)
generate_key(kind, role, n) == 2 + RoleIndex(role) + 3 * (KindIndex(kind) + 3 * n)

\* KeyManager::new; generated counts the generate calls (the source of fresh Uuids)
KeyManager_new == [deal_keys |-> <<>>, shipment_keys |-> <<>>, used_keys |-> {}, generated |-> 0]

\* Uuid::new_v4().to_string() for the slot-th key of the g-th generate call
new_uuid(g, slot) == 2 + 3 * g + slot

\* HashMap::insert
map_insert(map, k, v) == [x \in (DOMAIN map) \cup {k} |-> IF x = k THEN v ELSE map[x]]

generate_deal_keys(m, deal_id) ==
    LET keys == [seller_key |-> new_uuid(m.generated, 0), buyer_key |-> new_uuid(m.generated, 1)]
    IN [m EXCEPT !.deal_keys = map_insert(@, deal_id, keys), !.generated = @ + 1]

generate_shipment_keys(m, shipment_id) ==
    LET keys == [sender_key |-> new_uuid(m.generated, 0),
                 carrier_key |-> new_uuid(m.generated, 1),
                 recipient_key |-> new_uuid(m.generated, 2)]
    IN [m EXCEPT !.shipment_keys = map_insert(@, shipment_id, keys), !.generated = @ + 1]

\* String::clear on the slots that hold key
clear_deal_keys(k, key) ==
    [seller_key |-> IF k.seller_key = key THEN EmptyKey ELSE k.seller_key,
     buyer_key |-> IF k.buyer_key = key THEN EmptyKey ELSE k.buyer_key]

clear_shipment_keys(k, key) ==
    [sender_key |-> IF k.sender_key = key THEN EmptyKey ELSE k.sender_key,
     carrier_key |-> IF k.carrier_key = key THEN EmptyKey ELSE k.carrier_key,
     recipient_key |-> IF k.recipient_key = key THEN EmptyKey ELSE k.recipient_key]

\* variant: neither consults nor records the used keys
validate_and_use_key_no_used(m, key) ==
    LET is_valid ==
          \/ \E d \in DOMAIN m.deal_keys :
                m.deal_keys[d].seller_key = key \/ m.deal_keys[d].buyer_key = key
          \/ \E d \in DOMAIN m.shipment_keys :
                \/ m.shipment_keys[d].sender_key = key
                \/ m.shipment_keys[d].carrier_key = key
                \/ m.shipment_keys[d].recipient_key = key
    IN IF is_valid
       THEN [res |-> TRUE,
             km |-> [m EXCEPT
                       !.deal_keys = [d \in DOMAIN @ |-> clear_deal_keys(@[d], key)],
                       !.shipment_keys = [d \in DOMAIN @ |-> clear_shipment_keys(@[d], key)]]]
       ELSE [res |-> FALSE, km |-> m]

validate_and_use_key(m, key) ==
    IF key \in m.used_keys
    THEN [res |-> FALSE, km |-> m]
    ELSE
      LET is_valid ==
            \/ \E d \in DOMAIN m.deal_keys :
                  m.deal_keys[d].seller_key = key \/ m.deal_keys[d].buyer_key = key
            \/ \E d \in DOMAIN m.shipment_keys :
                  \/ m.shipment_keys[d].sender_key = key
                  \/ m.shipment_keys[d].carrier_key = key
                  \/ m.shipment_keys[d].recipient_key = key
      IN IF is_valid
         THEN [res |-> TRUE,
               km |-> [m EXCEPT
                         !.used_keys = @ \cup {key},
                         !.deal_keys = [d \in DOMAIN @ |-> clear_deal_keys(@[d], key)],
                         !.shipment_keys = [d \in DOMAIN @ |-> clear_shipment_keys(@[d], key)]]]
         ELSE [res |-> FALSE, km |-> m]

\* wallet.balance += amount on the User copy embedded in a record; None has no wallet
credit_embedded(user, amount) ==
    IF user = NoUser THEN user ELSE [user EXCEPT !.wallet_balance = u64_add(@, amount)]

\* variant of the time gate with a grace window of 48 hours
NotExpiredYetTwoDays(current_tick, datetime) ==
    current_tick * HoursPerTick <= datetime + GraceHours + GraceHours

\* current_datetime <= meeting_datetime + Duration::hours(24), in hours
NotExpiredYet(current_tick, datetime) ==
    current_tick * HoursPerTick <= datetime + GraceHours

\* Offer::update_status, Request::update_status, Shipment::update_status
update_status(self, new_status) == [self EXCEPT !.status = new_status]

---------------------------------------------------------------------------
(* offer.rs *)

\* variant of list_offer that asks the seller for an insurance of twice the payment
list_offer_double_insurance(id, seller, payment, meeting_datetime, escrow_account, l) ==
    LET insurance == u64_mul(2, payment) IN
    IF seller.wallet_balance < insurance
    THEN [res |-> "InsufficientFunds", rec |-> NoRecord, seller |-> seller, ledger |-> l]
    ELSE
      LET seller1 == [seller EXCEPT !.wallet_balance = u64_sub(@, insurance)]
          t == lock_funds(l, seller.pubkey, escrow_account, insurance)
      IN IF ~t.ok
         THEN [res |-> "LedgerError", rec |-> NoRecord, seller |-> seller1, ledger |-> t.ledger]
         ELSE [res |-> "Ok",
               rec |-> [id |-> id, status |-> "Listed", seller |-> seller1, buyer |-> NoUser,
                        meeting_datetime |-> meeting_datetime,
                        payment |-> payment, insurance |-> insurance,
                        seller_key |-> EmptyKey, buyer_key |-> EmptyKey,
                        escrow_id |-> escrow_account],
               seller |-> seller1, ledger |-> t.ledger]

list_offer(id, seller, payment, meeting_datetime, escrow_account, l) ==
    LET insurance == payment IN
    IF seller.wallet_balance < insurance
    THEN [res |-> "InsufficientFunds", rec |-> NoRecord, seller |-> seller, ledger |-> l]
    ELSE
      LET seller1 == [seller EXCEPT !.wallet_balance = u64_sub(@, insurance)]
          t == lock_funds(l, seller.pubkey, escrow_account, insurance)
      IN IF ~t.ok
         THEN [res |-> "LedgerError", rec |-> NoRecord, seller |-> seller1, ledger |-> t.ledger]
         ELSE [res |-> "Ok",
               rec |-> [id |-> id, status |-> "Listed", seller |-> seller1, buyer |-> NoUser,
                        meeting_datetime |-> meeting_datetime,
                        payment |-> payment, insurance |-> insurance,
                        seller_key |-> EmptyKey, buyer_key |-> EmptyKey,
                        escrow_id |-> escrow_account],
               seller |-> seller1, ledger |-> t.ledger]

accept_offer(self, buyer, buyer_account, escrow_account, n, l) ==
    IF self.status # "Listed"
    THEN [res |-> "IncorrectState", rec |-> self, buyer |-> buyer, ledger |-> l]
    ELSE
      LET s1 == [self EXCEPT !.seller_key = generate_key("offer", "seller", n),
                             !.buyer_key = generate_key("offer", "buyer", n),
                             !.buyer = buyer]
          buyer_balance == get_balance(l, buyer_account)
          total_deduction == u64_add(s1.payment, s1.insurance)
      IN IF buyer_balance < total_deduction
         THEN [res |-> "InsufficientFunds", rec |-> s1, buyer |-> buyer, ledger |-> l]
         ELSE
           LET buyer1 == [buyer EXCEPT !.wallet_balance = u64_sub(@, total_deduction)]
               t == lock_funds(l, buyer_account, escrow_account, total_deduction)
           IN IF ~t.ok
              THEN [res |-> "LedgerError", rec |-> s1, buyer |-> buyer1, ledger |-> t.ledger]
              ELSE [res |-> "Ok", rec |-> [s1 EXCEPT !.status = "Accepted"],
                    buyer |-> buyer1, ledger |-> t.ledger]

\* variant: the buyer's key is not compared
complete_offer_seller_key_only(self, entered_buyer_key, entered_seller_key, seller_account, buyer_account, escrow_account, seller, buyer, l) ==
    IF self.status # "Accepted"
    THEN [res |-> "IncorrectState", rec |-> self, seller |-> seller, buyer |-> buyer, ledger |-> l]
    ELSE IF get_balance(l, escrow_account) < u64_add(self.payment, u64_mul(2, self.insurance))
    THEN [res |-> "InsufficientFunds", rec |-> self, seller |-> seller, buyer |-> buyer, ledger |-> l]
    ELSE
      LET t1 == release_funds(l, escrow_account, seller_account, self.payment)
          seller1 == [seller EXCEPT !.wallet_balance = u64_add(@, self.payment)]
      IN IF ~t1.ok
         THEN [res |-> "LedgerError", rec |-> self, seller |-> seller, buyer |-> buyer,
               ledger |-> t1.ledger]
         ELSE IF entered_seller_key # self.seller_key
         THEN [res |-> "KeyMismatch", rec |-> self, seller |-> seller1, buyer |-> buyer,
               ledger |-> t1.ledger]
         ELSE
           LET t2 == release_funds(t1.ledger, escrow_account, seller_account, self.insurance)
               seller2 == [seller1 EXCEPT !.wallet_balance = u64_add(@, self.insurance)]
           IN IF ~t2.ok
              THEN [res |-> "LedgerError", rec |-> self, seller |-> seller1, buyer |-> buyer,
                    ledger |-> t2.ledger]
              ELSE
                LET t3 == release_funds(t2.ledger, escrow_account, buyer_account, self.insurance)
                    buyer1 == [buyer EXCEPT !.wallet_balance = u64_add(@, self.insurance)]
                IN IF ~t3.ok
                   THEN [res |-> "LedgerError", rec |-> self, seller |-> seller2,
                         buyer |-> buyer, ledger |-> t3.ledger]
                   ELSE [res |-> "Ok",
                         rec |-> [self EXCEPT !.buyer_key = EmptyKey, !.seller_key = EmptyKey,
                                              !.status = "Completed"],
                         seller |-> mark_deal(seller2, TRUE),
                         buyer |-> mark_deal(buyer1, TRUE),
                         ledger |-> t3.ledger]

complete_offer(self, entered_buyer_key, entered_seller_key, seller_account, buyer_account, escrow_account, seller, buyer, l) ==
    IF self.status # "Accepted"
    THEN [res |-> "IncorrectState", rec |-> self, seller |-> seller, buyer |-> buyer, ledger |-> l]
    ELSE IF entered_buyer_key # self.buyer_key
    THEN [res |-> "KeyMismatch", rec |-> self, seller |-> seller, buyer |-> buyer, ledger |-> l]
    ELSE IF get_balance(l, escrow_account) < u64_add(self.payment, u64_mul(2, self.insurance))
    THEN [res |-> "InsufficientFunds", rec |-> self, seller |-> seller, buyer |-> buyer, ledger |-> l]
    ELSE
      LET t1 == release_funds(l, escrow_account, seller_account, self.payment)
          seller1 == [seller EXCEPT !.wallet_balance = u64_add(@, self.payment)]
      IN IF ~t1.ok
         THEN [res |-> "LedgerError", rec |-> self, seller |-> seller, buyer |-> buyer,
               ledger |-> t1.ledger]
         ELSE IF entered_seller_key # self.seller_key
         THEN [res |-> "KeyMismatch", rec |-> self, seller |-> seller1, buyer |-> buyer,
               ledger |-> t1.ledger]
         ELSE
           LET t2 == release_funds(t1.ledger, escrow_account, seller_account, self.insurance)
               seller2 == [seller1 EXCEPT !.wallet_balance = u64_add(@, self.insurance)]
           IN IF ~t2.ok
              THEN [res |-> "LedgerError", rec |-> self, seller |-> seller1, buyer |-> buyer,
                    ledger |-> t2.ledger]
              ELSE
                LET t3 == release_funds(t2.ledger, escrow_account, buyer_account, self.insurance)
                    buyer1 == [buyer EXCEPT !.wallet_balance = u64_add(@, self.insurance)]
                IN IF ~t3.ok
                   THEN [res |-> "LedgerError", rec |-> self, seller |-> seller2,
                         buyer |-> buyer, ledger |-> t3.ledger]
                   ELSE [res |-> "Ok",
                         rec |-> [self EXCEPT !.buyer_key = EmptyKey, !.seller_key = EmptyKey,
                                              !.status = "Completed"],
                         seller |-> mark_deal(seller2, TRUE),
                         buyer |-> mark_deal(buyer1, TRUE),
                         ledger |-> t3.ledger]

\* variant: leaves the two key slots as they are
fail_offer_keeps_keys(self, entered_seller_key, buyer, escrow_account, l) ==
    IF self.status # "Accepted"
    THEN [res |-> "IncorrectState", rec |-> self, buyer |-> buyer, ledger |-> l]
    ELSE IF entered_seller_key # self.seller_key
    THEN [res |-> "KeyMismatch", rec |-> self, buyer |-> buyer, ledger |-> l]
    ELSE
      LET total_amount == u64_add(self.payment, u64_mul(2, self.insurance))
          t == transfer_to_penalty(l, escrow_account, total_amount)
      IN IF ~t.ok
         THEN [res |-> "LedgerError", rec |-> self, buyer |-> buyer, ledger |-> t.ledger]
         ELSE [res |-> "Ok", rec |-> [self EXCEPT !.status = "Failed"],
               buyer |-> mark_deal(buyer, FALSE), ledger |-> t.ledger]

fail_offer(self, entered_seller_key, buyer, escrow_account, l) ==
    IF self.status # "Accepted"
    THEN [res |-> "IncorrectState", rec |-> self, buyer |-> buyer, ledger |-> l]
    ELSE IF entered_seller_key # self.seller_key
    THEN [res |-> "KeyMismatch", rec |-> self, buyer |-> buyer, ledger |-> l]
    ELSE
      LET total_amount == u64_add(self.payment, u64_mul(2, self.insurance))
          t == transfer_to_penalty(l, escrow_account, total_amount)
      IN IF ~t.ok
         THEN [res |-> "LedgerError", rec |-> self, buyer |-> buyer, ledger |-> t.ledger]
         ELSE [res |-> "Ok",
               rec |-> [self EXCEPT !.buyer_key = EmptyKey, !.seller_key = EmptyKey,
                                    !.status = "Failed"],
               buyer |-> mark_deal(buyer, FALSE), ledger |-> t.ledger]

\* variant of expire_offer that refunds the seller's insurance to the buyer as well
expire_offer_all_to_buyer(self, escrow_account, seller_account, buyer_account, current_datetime, l) ==
    IF NotExpiredYet(current_datetime, self.meeting_datetime)
    THEN [res |-> "OperationNotAllowed", rec |-> self, ledger |-> l]
    ELSE IF self.status # "Accepted"
    THEN [res |-> "IncorrectState", rec |-> self, ledger |-> l]
    ELSE
      LET buyer_total == u64_add(self.payment, self.insurance)
          t1 == release_funds(l, escrow_account, buyer_account, buyer_total)
          t2 == release_funds(t1.ledger, escrow_account, buyer_account, self.insurance)
      IN IF ~t1.ok \/ ~t2.ok
         THEN [res |-> "LedgerError", rec |-> self, ledger |-> t2.ledger]
         ELSE [res |-> "Ok", rec |-> [self EXCEPT !.status = "Expired"], ledger |-> t2.ledger]

expire_offer(self, escrow_account, seller_account, buyer_account, current_datetime, l) ==
    IF NotExpiredYet(current_datetime, self.meeting_datetime)
    THEN [res |-> "OperationNotAllowed", rec |-> self, ledger |-> l]
    ELSE IF self.status # "Accepted"
    THEN [res |-> "IncorrectState", rec |-> self, ledger |-> l]
    ELSE
      LET buyer_total == u64_add(self.payment, self.insurance)
          t1 == release_funds(l, escrow_account, buyer_account, buyer_total)
      IN IF ~t1.ok
         THEN [res |-> "LedgerError", rec |-> self, ledger |-> t1.ledger]
         ELSE IF self.buyer = NoUser
         THEN [res |-> "UserNotFound", rec |-> self, ledger |-> t1.ledger]
         ELSE
           LET s1 == [self EXCEPT !.buyer = credit_embedded(@, buyer_total)]
               t2 == release_funds(t1.ledger, escrow_account, seller_account, self.insurance)
           IN IF ~t2.ok
              THEN [res |-> "LedgerError", rec |-> s1, ledger |-> t2.ledger]
              ELSE [res |-> "Ok",
                    rec |-> [s1 EXCEPT !.seller = credit_embedded(@, self.insurance),
                                       !.status = "Expired"],
                    ledger |-> t2.ledger]

\* variant: cancels without looking at the status
cancel_offer_any_status(self, seller_account, escrow_account, l) ==
    LET t == release_funds(l, escrow_account, seller_account, self.insurance)
    IN IF ~t.ok
       THEN [res |-> "LedgerError", rec |-> self, ledger |-> t.ledger]
       ELSE [res |-> "Ok",
             rec |-> [self EXCEPT !.seller_key = EmptyKey, !.status = "Canceled"],
             ledger |-> t.ledger]

cancel_offer(self, seller_account, escrow_account, l) ==
    IF self.status # "Listed"
    THEN [res |-> "IncorrectState", rec |-> self, ledger |-> l]
    ELSE
      LET t == release_funds(l, escrow_account, seller_account, self.insurance)
      IN IF ~t.ok
         THEN [res |-> "LedgerError", rec |-> self, ledger |-> t.ledger]
         ELSE [res |-> "Ok",
               rec |-> [self EXCEPT !.seller_key = EmptyKey, !.status = "Canceled"],
               ledger |-> t.ledger]

---------------------------------------------------------------------------
(* request.rs *)

\* variant: debits and locks the payment only
list_request_locks_payment(id, buyer, payment, meeting_datetime, escrow_account, l) ==
    LET insurance == payment
        total == u64_add(payment, insurance)
    IN
    IF buyer.wallet_balance < total
    THEN [res |-> "InsufficientFunds", rec |-> NoRecord, buyer |-> buyer, ledger |-> l]
    ELSE
      LET buyer1 == [buyer EXCEPT !.wallet_balance = u64_sub(@, payment)]
          t == lock_funds(l, buyer.pubkey, escrow_account, payment)
      IN IF ~t.ok
         THEN [res |-> "LedgerError", rec |-> NoRecord, buyer |-> buyer1, ledger |-> t.ledger]
         ELSE [res |-> "Ok",
               rec |-> [id |-> id, status |-> "Listed", buyer |-> buyer1, seller |-> NoUser,
                        meeting_datetime |-> meeting_datetime,
                        payment |-> payment, insurance |-> insurance,
                        buyer_key |-> EmptyKey, seller_key |-> EmptyKey,
                        escrow_id |-> escrow_account],
               buyer |-> buyer1, ledger |-> t.ledger]

list_request(id, buyer, payment, meeting_datetime, escrow_account, l) ==
    LET insurance == payment
        total == u64_add(payment, insurance)
    IN
    IF buyer.wallet_balance < total
    THEN [res |-> "InsufficientFunds", rec |-> NoRecord, buyer |-> buyer, ledger |-> l]
    ELSE
      LET buyer1 == [buyer EXCEPT !.wallet_balance = u64_sub(@, total)]
          t == lock_funds(l, buyer.pubkey, escrow_account, total)
      IN IF ~t.ok
         THEN [res |-> "LedgerError", rec |-> NoRecord, buyer |-> buyer1, ledger |-> t.ledger]
         ELSE [res |-> "Ok",
               rec |-> [id |-> id, status |-> "Listed", buyer |-> buyer1, seller |-> NoUser,
                        meeting_datetime |-> meeting_datetime,
                        payment |-> payment, insurance |-> insurance,
                        buyer_key |-> EmptyKey, seller_key |-> EmptyKey,
                        escrow_id |-> escrow_account],
               buyer |-> buyer1, ledger |-> t.ledger]

\* variant of accept_request that does not look at the status
accept_request_any_status(self, seller, seller_account, escrow_account, n, l) ==
    LET s1 == [self EXCEPT !.buyer_key = generate_key("request", "buyer", n),
                           !.seller_key = generate_key("request", "seller", n),
                           !.seller = seller]
        seller1 == [seller EXCEPT !.wallet_balance = u64_sub(@, s1.insurance)]
        t == lock_funds(l, seller_account, escrow_account, s1.insurance)
    IN IF seller.wallet_balance < s1.insurance
       THEN [res |-> "InsufficientFunds", rec |-> s1, seller |-> seller, ledger |-> l]
       ELSE IF ~t.ok
       THEN [res |-> "LedgerError", rec |-> s1, seller |-> seller1, ledger |-> t.ledger]
       ELSE [res |-> "Ok", rec |-> [s1 EXCEPT !.status = "Accepted"],
             seller |-> seller1, ledger |-> t.ledger]

accept_request(self, seller, seller_account, escrow_account, n, l) ==
    IF self.status # "Listed"
    THEN [res |-> "IncorrectState", rec |-> self, seller |-> seller, ledger |-> l]
    ELSE
      LET s1 == [self EXCEPT !.buyer_key = generate_key("request", "buyer", n),
                             !.seller_key = generate_key("request", "seller", n),
                             !.seller = seller]
      IN IF seller.wallet_balance < s1.insurance
         THEN [res |-> "InsufficientFunds", rec |-> s1, seller |-> seller, ledger |-> l]
         ELSE
           LET seller1 == [seller EXCEPT !.wallet_balance = u64_sub(@, s1.insurance)]
               t == lock_funds(l, seller_account, escrow_account, s1.insurance)
           IN IF ~t.ok
              THEN [res |-> "LedgerError", rec |-> s1, seller |-> seller1, ledger |-> t.ledger]
              ELSE [res |-> "Ok", rec |-> [s1 EXCEPT !.status = "Accepted"],
                    seller |-> seller1, ledger |-> t.ledger]

\* variant of complete_request without the check of the custody balance
complete_request_no_custody_check(self, entered_buyer_key, entered_seller_key, seller_account, buyer_account, escrow_account, seller, buyer, l) ==
    IF self.status # "Accepted"
    THEN [res |-> "IncorrectState", rec |-> self, seller |-> seller, buyer |-> buyer, ledger |-> l]
    ELSE IF entered_buyer_key # self.buyer_key
    THEN [res |-> "KeyMismatch", rec |-> self, seller |-> seller, buyer |-> buyer, ledger |-> l]
    ELSE
      LET t1 == release_funds(l, escrow_account, seller_account, self.payment)
          t2 == release_funds(t1.ledger, escrow_account, seller_account, self.insurance)
          t3 == release_funds(t2.ledger, escrow_account, buyer_account, self.insurance)
      IN IF ~t1.ok
         THEN [res |-> "LedgerError", rec |-> self, seller |-> seller, buyer |-> buyer,
               ledger |-> t1.ledger]
         ELSE IF entered_seller_key # self.seller_key
         THEN [res |-> "KeyMismatch", rec |-> self, seller |-> seller, buyer |-> buyer,
               ledger |-> t1.ledger]
         ELSE IF ~t2.ok \/ ~t3.ok
         THEN [res |-> "LedgerError", rec |-> self, seller |-> seller, buyer |-> buyer,
               ledger |-> t3.ledger]
         ELSE [res |-> "Ok",
               rec |-> [self EXCEPT !.buyer_key = EmptyKey, !.seller_key = EmptyKey,
                                    !.status = "Completed"],
               seller |-> mark_deal(seller, TRUE), buyer |-> mark_deal(buyer, TRUE),
               ledger |-> t3.ledger]

complete_request(self, entered_buyer_key, entered_seller_key, seller_account, buyer_account, escrow_account, seller, buyer, l) ==
    IF self.status # "Accepted"
    THEN [res |-> "IncorrectState", rec |-> self, seller |-> seller, buyer |-> buyer, ledger |-> l]
    ELSE IF entered_buyer_key # self.buyer_key
    THEN [res |-> "KeyMismatch", rec |-> self, seller |-> seller, buyer |-> buyer, ledger |-> l]
    ELSE IF get_balance(l, escrow_account) < u64_add(self.payment, u64_mul(2, self.insurance))
    THEN [res |-> "InsufficientFunds", rec |-> self, seller |-> seller, buyer |-> buyer, ledger |-> l]
    ELSE
      LET t1 == release_funds(l, escrow_account, seller_account, self.payment)
          seller1 == [seller EXCEPT !.wallet_balance = u64_add(@, self.payment)]
      IN IF ~t1.ok
         THEN [res |-> "LedgerError", rec |-> self, seller |-> seller, buyer |-> buyer,
               ledger |-> t1.ledger]
         ELSE IF entered_seller_key # self.seller_key
         THEN [res |-> "KeyMismatch", rec |-> self, seller |-> seller1, buyer |-> buyer,
               ledger |-> t1.ledger]
         ELSE
           LET t2 == release_funds(t1.ledger, escrow_account, seller_account, self.insurance)
               seller2 == [seller1 EXCEPT !.wallet_balance = u64_add(@, self.insurance)]
           IN IF ~t2.ok
              THEN [res |-> "LedgerError", rec |-> self, seller |-> seller1, buyer |-> buyer,
                    ledger |-> t2.ledger]
              ELSE
                LET t3 == release_funds(t2.ledger, escrow_account, buyer_account, self.insurance)
                    buyer1 == [buyer EXCEPT !.wallet_balance = u64_add(@, self.insurance)]
                IN IF ~t3.ok
                   THEN [res |-> "LedgerError", rec |-> self, seller |-> seller2,
                         buyer |-> buyer, ledger |-> t3.ledger]
                   ELSE [res |-> "Ok",
                         rec |-> [self EXCEPT !.buyer_key = EmptyKey, !.seller_key = EmptyKey,
                                              !.status = "Completed"],
                         seller |-> mark_deal(seller2, TRUE),
                         buyer |-> mark_deal(buyer1, TRUE),
                         ledger |-> t3.ledger]

\* variant of fail_request that marks nobody
fail_request_no_mark(self, entered_seller_key, buyer, escrow_account, l) ==
    IF self.status # "Accepted"
    THEN [res |-> "IncorrectState", rec |-> self, buyer |-> buyer, ledger |-> l]
    ELSE IF entered_seller_key # self.seller_key
    THEN [res |-> "KeyMismatch", rec |-> self, buyer |-> buyer, ledger |-> l]
    ELSE
      LET total_amount == u64_add(self.payment, u64_mul(2, self.insurance))
          t == transfer_to_penalty(l, escrow_account, total_amount)
      IN IF ~t.ok
         THEN [res |-> "LedgerError", rec |-> self, buyer |-> buyer, ledger |-> t.ledger]
         ELSE [res |-> "Ok",
               rec |-> [self EXCEPT !.buyer_key = EmptyKey, !.seller_key = EmptyKey,
                                    !.status = "Failed"],
               buyer |-> buyer, ledger |-> t.ledger]

fail_request(self, entered_seller_key, buyer, escrow_account, l) ==
    IF self.status # "Accepted"
    THEN [res |-> "IncorrectState", rec |-> self, buyer |-> buyer, ledger |-> l]
    ELSE IF entered_seller_key # self.seller_key
    THEN [res |-> "KeyMismatch", rec |-> self, buyer |-> buyer, ledger |-> l]
    ELSE
      LET total_amount == u64_add(self.payment, u64_mul(2, self.insurance))
          t == transfer_to_penalty(l, escrow_account, total_amount)
      IN IF ~t.ok
         THEN [res |-> "LedgerError", rec |-> self, buyer |-> buyer, ledger |-> t.ledger]
         ELSE [res |-> "Ok",
               rec |-> [self EXCEPT !.buyer_key = EmptyKey, !.seller_key = EmptyKey,
                                    !.status = "Failed"],
               buyer |-> mark_deal(buyer, FALSE), ledger |-> t.ledger]

\* variant of expire_request that looks at the status before it looks at the time
expire_request_status_first(self, escrow_account, seller_account, buyer_account, current_datetime, l) ==
    IF self.status # "Accepted"
    THEN [res |-> "IncorrectState", rec |-> self, ledger |-> l]
    ELSE IF NotExpiredYet(current_datetime, self.meeting_datetime)
    THEN [res |-> "OperationNotAllowed", rec |-> self, ledger |-> l]
    ELSE
      LET buyer_total == u64_add(self.payment, self.insurance)
          t1 == release_funds(l, escrow_account, buyer_account, buyer_total)
          t2 == release_funds(t1.ledger, escrow_account, seller_account, self.insurance)
      IN IF ~t1.ok \/ ~t2.ok
         THEN [res |-> "LedgerError", rec |-> self, ledger |-> t2.ledger]
         ELSE [res |-> "Ok", rec |-> [self EXCEPT !.status = "Expired"], ledger |-> t2.ledger]

expire_request(self, escrow_account, seller_account, buyer_account, current_datetime, l) ==
    IF NotExpiredYet(current_datetime, self.meeting_datetime)
    THEN [res |-> "OperationNotAllowed", rec |-> self, ledger |-> l]
    ELSE IF self.status # "Accepted"
    THEN [res |-> "IncorrectState", rec |-> self, ledger |-> l]
    ELSE
      LET buyer_total == u64_add(self.payment, self.insurance)
          t1 == release_funds(l, escrow_account, buyer_account, buyer_total)
      IN IF ~t1.ok
         THEN [res |-> "LedgerError", rec |-> self, ledger |-> t1.ledger]
         ELSE
           LET s1 == [self EXCEPT !.buyer = credit_embedded(@, buyer_total)]
               t2 == release_funds(t1.ledger, escrow_account, seller_account, self.insurance)
           IN IF ~t2.ok
              THEN [res |-> "LedgerError", rec |-> s1, ledger |-> t2.ledger]
              ELSE [res |-> "Ok",
                    rec |-> [s1 EXCEPT !.seller = credit_embedded(@, self.insurance),
                                       !.status = "Expired"],
                    ledger |-> t2.ledger]

cancel_request(self, seller_account, escrow_account, l) ==
    IF self.status # "Listed"
    THEN [res |-> "IncorrectState", rec |-> self, ledger |-> l]
    ELSE
      LET t == release_funds(l, escrow_account, seller_account, self.insurance)
      IN IF ~t.ok
         THEN [res |-> "LedgerError", rec |-> self, ledger |-> t.ledger]
         ELSE [res |-> "Ok",
               rec |-> [self EXCEPT !.seller_key = EmptyKey, !.status = "Canceled"],
               ledger |-> t.ledger]


---------------------------------------------------------------------------
(* shipment.rs *)

list_shipment(id, sender, recipient, payment, insurance, drop_off_datetime, escrow_account, l) ==
    IF sender.wallet_balance < payment
    THEN [res |-> "InsufficientFunds", rec |-> NoRecord, sender |-> sender, ledger |-> l]
    ELSE
      LET sender1 == [sender EXCEPT !.wallet_balance = u64_sub(@, payment)]
          t == lock_funds(l, sender.pubkey, escrow_account, payment)
      IN IF ~t.ok
         THEN [res |-> "LedgerError", rec |-> NoRecord, sender |-> sender1, ledger |-> t.ledger]
         ELSE [res |-> "Ok",
               rec |-> [id |-> id, status |-> "Listed", sender |-> sender1, carrier |-> NoUser,
                        recipient |-> recipient,
                        drop_off_datetime |-> drop_off_datetime,
                        payment |-> payment, insurance |-> insurance,
                        sender_key |-> EmptyKey, carrier_key |-> EmptyKey,
                        recipient_key |-> EmptyKey,
                        escrow_id |-> escrow_account],
               sender |-> sender1, ledger |-> t.ledger]

\* variant: issues no key for the recipient
accept_shipment_two_keys(self, carrier, carrier_account, escrow_account, n, l) ==
    IF self.status # "Listed"
    THEN [res |-> "IncorrectState", rec |-> self, carrier |-> carrier, ledger |-> l]
    ELSE
      LET s1 == [self EXCEPT !.sender_key = generate_key("shipment", "sender", n),
                             !.carrier_key = generate_key("shipment", "carrier", n),
                             !.carrier = carrier]
          carrier_balance == get_balance(l, carrier_account)
      IN IF carrier_balance < s1.insurance
         THEN [res |-> "InsufficientFunds", rec |-> s1, carrier |-> carrier, ledger |-> l]
         ELSE
           LET carrier1 == [carrier EXCEPT !.wallet_balance = u64_sub(@, s1.insurance)]
               t == lock_funds(l, carrier_account, escrow_account, s1.insurance)
           IN IF ~t.ok
              THEN [res |-> "LedgerError", rec |-> s1, carrier |-> carrier1, ledger |-> t.ledger]
              ELSE [res |-> "Ok", rec |-> [s1 EXCEPT !.status = "Accepted"],
                    carrier |-> carrier1, ledger |-> t.ledger]

accept_shipment(self, carrier, carrier_account, escrow_account, n, l) ==
    IF self.status # "Listed"
    THEN [res |-> "IncorrectState", rec |-> self, carrier |-> carrier, ledger |-> l]
    ELSE
      LET s1 == [self EXCEPT !.sender_key = generate_key("shipment", "sender", n),
                             !.carrier_key = generate_key("shipment", "carrier", n),
                             !.recipient_key = generate_key("shipment", "recipient", n),
                             !.carrier = carrier]
          carrier_balance == get_balance(l, carrier_account)
      IN IF carrier_balance < s1.insurance
         THEN [res |-> "InsufficientFunds", rec |-> s1, carrier |-> carrier, ledger |-> l]
         ELSE
           LET carrier1 == [carrier EXCEPT !.wallet_balance = u64_sub(@, s1.insurance)]
               t == lock_funds(l, carrier_account, escrow_account, s1.insurance)
           IN IF ~t.ok
              THEN [res |-> "LedgerError", rec |-> s1, carrier |-> carrier1, ledger |-> t.ledger]
              ELSE [res |-> "Ok", rec |-> [s1 EXCEPT !.status = "Accepted"],
                    carrier |-> carrier1, ledger |-> t.ledger]

complete_shipment(self, entered_carrier_key, entered_recipient_key, sender_account, carrier_account, escrow_account, sender, carrier, l) ==
    IF self.status # "Accepted"
    THEN [res |-> "IncorrectState", rec |-> self, sender |-> sender, carrier |-> carrier,
          ledger |-> l]
    ELSE IF entered_carrier_key # self.carrier_key
    THEN [res |-> "KeyMismatch", rec |-> self, sender |-> sender, carrier |-> carrier,
          ledger |-> l]
    ELSE IF get_balance(l, escrow_account) < u64_add(self.payment, self.insurance)
    THEN [res |-> "InsufficientFunds", rec |-> self, sender |-> sender, carrier |-> carrier,
          ledger |-> l]
    ELSE IF entered_recipient_key # self.recipient_key
    THEN [res |-> "KeyMismatch", rec |-> self, sender |-> sender, carrier |-> carrier,
          ledger |-> l]
    ELSE
      LET total_release == u64_add(self.payment, self.insurance)
          t == release_funds(l, escrow_account, carrier_account, total_release)
          carrier1 == [carrier EXCEPT !.wallet_balance = u64_add(@, total_release)]
      IN IF ~t.ok
         THEN [res |-> "LedgerError", rec |-> self, sender |-> sender, carrier |-> carrier,
               ledger |-> t.ledger]
         ELSE [res |-> "Ok",
               rec |-> [self EXCEPT !.sender_key = EmptyKey, !.carrier_key = EmptyKey,
                                    !.recipient_key = EmptyKey, !.status = "Completed"],
               sender |-> mark_deal(sender, TRUE),
               carrier |-> mark_deal(carrier1, TRUE),
               ledger |-> t.ledger]

\* variant of fail_shipment that sends only the insurance to the penalty account
fail_shipment_insurance_only(self, entered_sender_key, carrier, escrow_account, l) ==
    IF self.status # "Accepted"
    THEN [res |-> "IncorrectState", rec |-> self, carrier |-> carrier, ledger |-> l]
    ELSE IF self.carrier_key = EmptyKey
    THEN [res |-> "OperationNotAllowed", rec |-> self, carrier |-> carrier, ledger |-> l]
    ELSE IF entered_sender_key # self.sender_key
    THEN [res |-> "KeyMismatch", rec |-> self, carrier |-> carrier, ledger |-> l]
    ELSE
      LET t == transfer_to_penalty(l, escrow_account, self.insurance)
      IN IF ~t.ok
         THEN [res |-> "LedgerError", rec |-> self, carrier |-> carrier, ledger |-> t.ledger]
         ELSE [res |-> "Ok",
               rec |-> [self EXCEPT !.sender_key = EmptyKey, !.carrier_key = EmptyKey,
                                    !.recipient_key = EmptyKey, !.status = "Failed"],
               carrier |-> mark_deal(carrier, FALSE), ledger |-> t.ledger]

fail_shipment(self, entered_sender_key, carrier, escrow_account, l) ==
    IF self.status # "Accepted"
    THEN [res |-> "IncorrectState", rec |-> self, carrier |-> carrier, ledger |-> l]
    ELSE IF self.carrier_key = EmptyKey
    THEN [res |-> "OperationNotAllowed", rec |-> self, carrier |-> carrier, ledger |-> l]
    ELSE IF entered_sender_key # self.sender_key
    THEN [res |-> "KeyMismatch", rec |-> self, carrier |-> carrier, ledger |-> l]
    ELSE
      LET total_amount == u64_add(self.payment, self.insurance)
          t == transfer_to_penalty(l, escrow_account, total_amount)
      IN IF ~t.ok
         THEN [res |-> "LedgerError", rec |-> self, carrier |-> carrier, ledger |-> t.ledger]
         ELSE [res |-> "Ok",
               rec |-> [self EXCEPT !.sender_key = EmptyKey, !.carrier_key = EmptyKey,
                                    !.recipient_key = EmptyKey, !.status = "Failed"],
               carrier |-> mark_deal(carrier, FALSE), ledger |-> t.ledger]

\* variant of expire_shipment that refunds both parties and leaves the status Accepted
expire_shipment_keeps_status(self, escrow_account, sender_account, carrier_account, current_datetime, l) ==
    IF NotExpiredYet(current_datetime, self.drop_off_datetime)
    THEN [res |-> "OperationNotAllowed", rec |-> self, ledger |-> l]
    ELSE IF self.status # "Accepted"
    THEN [res |-> "IncorrectState", rec |-> self, ledger |-> l]
    ELSE
      LET t1 == release_funds(l, escrow_account, sender_account, self.payment)
          t2 == release_funds(t1.ledger, escrow_account, carrier_account, self.insurance)
      IN IF ~t1.ok \/ ~t2.ok
         THEN [res |-> "LedgerError", rec |-> self, ledger |-> t2.ledger]
         ELSE [res |-> "Ok", rec |-> self, ledger |-> t2.ledger]

expire_shipment(self, escrow_account, sender_account, carrier_account, current_datetime, l) ==
    IF NotExpiredYet(current_datetime, self.drop_off_datetime)
    THEN [res |-> "OperationNotAllowed", rec |-> self, ledger |-> l]
    ELSE IF self.status # "Accepted"
    THEN [res |-> "IncorrectState", rec |-> self, ledger |-> l]
    ELSE
      LET t1 == release_funds(l, escrow_account, sender_account, self.payment)
      IN IF ~t1.ok
         THEN [res |-> "LedgerError", rec |-> self, ledger |-> t1.ledger]
         ELSE
           LET s1 == [self EXCEPT !.sender = credit_embedded(@, self.payment)]
               t2 == release_funds(t1.ledger, escrow_account, carrier_account, self.insurance)
           IN IF ~t2.ok
              THEN [res |-> "LedgerError", rec |-> s1, ledger |-> t2.ledger]
              ELSE IF self.carrier = NoUser
              THEN [res |-> "UserNotFound", rec |-> s1, ledger |-> t2.ledger]
              ELSE [res |-> "Ok",
                    rec |-> [s1 EXCEPT !.carrier = credit_embedded(@, self.insurance),
                                       !.status = "Expired"],
                    ledger |-> t2.ledger]

cancel_shipment(self, sender_account, escrow_account, l) ==
    IF self.status # "Listed"
    THEN [res |-> "IncorrectState", rec |-> self, ledger |-> l]
    ELSE
      LET t == release_funds(l, escrow_account, sender_account, self.payment)
      IN IF ~t.ok
         THEN [res |-> "LedgerError", rec |-> self, ledger |-> t.ledger]
         ELSE [res |-> "Ok",
               rec |-> [self EXCEPT !.sender_key = EmptyKey, !.status = "Canceled"],
               ledger |-> t.ledger]

---------------------------------------------------------------------------
(* processor.rs: the participants of the commands *)

OfferSellers == {"alice"}
OfferBuyers == {"bob"}
RequestBuyers == {"bob"}
RequestSellers == {"alice"}
ShipmentSenders == {"carol"}
ShipmentCarriers == {"alice"}
ShipmentRecipients == {"bob"}

\* the account a caller names for a party the record does not hold yet
PartyKey(user, candidates) == IF user = NoUser THEN CHOOSE c \in candidates : TRUE ELSE user.pubkey

\* the keys a caller may enter for a slot: the stored one, the empty string, a wrong one
KeyGuesses(stored) == {stored, EmptyKey, BogusKey}

Result(op, res) == [op |-> op, res |-> res]

\* how many deals have been listed
Listed == Cardinality({k \in {offer, request, shipment} : k # NoRecord})

Init ==
    /\ ledger = [a \in Accounts |-> IF a \in Participants THEN InitialBalance ELSE 0]
    /\ users = [p \in Participants |-> User_new(p, InitialBalance)]
    /\ offer = NoRecord
    /\ request = NoRecord
    /\ shipment = NoRecord
    /\ nonce = [k \in Kinds |-> 0]
    /\ now = 0
    /\ locked = [k \in Kinds |-> 0]
    /\ last = Result("None", "None")
    /\ km = KeyManager_new
    /\ validated = [true_for |-> {}, repeated |-> {}, true_again |-> {}]
    /\ settled = [k \in Kinds |-> 0]
    /\ released = [k \in Kinds |-> 0]
    /\ paid = [k \in Kinds |-> 0]

---------------------------------------------------------------------------
(* processor.rs: Offer commands *)

ListOfferCall(seller_account_key, payment, meeting_datetime) ==
    IF users[seller_account_key].wallet_balance < payment
    THEN [res |-> "InsufficientFunds", rec |-> NoRecord,
          seller |-> users[seller_account_key], ledger |-> ledger]
    ELSE list_offer(1, users[seller_account_key], payment, meeting_datetime,
                    "escrow_offer", ledger)

ListOffer(seller_account_key, payment, meeting_datetime) ==
    /\ offer = NoRecord
    /\ Listed < MaxDeals
    /\ LET r == ListOfferCall(seller_account_key, payment, meeting_datetime) IN
       /\ ledger' = r.ledger
       /\ last' = Result("ListOffer", r.res)
       /\ IF r.res = "Ok"
          THEN /\ offer' = r.rec
               /\ users' = [users EXCEPT ![seller_account_key] = r.seller]
               /\ locked' = [locked EXCEPT !["offer"] =
                                r.ledger["escrow_offer"] - ledger["escrow_offer"]]
          ELSE UNCHANGED <<offer, users, locked>>
    /\ UNCHANGED <<request, shipment, nonce, now, km, validated, settled, released, paid>>

AcceptOfferCall(buyer_account_key) ==
    accept_offer(offer, users[buyer_account_key], buyer_account_key, offer.escrow_id,
                 nonce["offer"], ledger)

AcceptOffer(buyer_account_key) ==
    /\ offer # NoRecord
    /\ nonce["offer"] < MaxKeyGens \/ offer.status # "Listed"
    /\ LET r == AcceptOfferCall(buyer_account_key) IN
       /\ ledger' = r.ledger
       /\ last' = Result("AcceptOffer", r.res)
       /\ IF r.res = "Ok"
          THEN /\ offer' = r.rec
               /\ nonce' = [nonce EXCEPT !["offer"] = @ + 1]
               /\ locked' = [locked EXCEPT !["offer"] =
                                @ + r.ledger[offer.escrow_id] - ledger[offer.escrow_id]]
          ELSE UNCHANGED <<offer, nonce, locked>>
    /\ UNCHANGED <<users, request, shipment, now, km, validated, settled, released, paid>>

CompleteOfferCall(entered_buyer_key, entered_seller_key) ==
    LET seller_account_key == offer.seller.pubkey
        buyer_account_key == PartyKey(offer.buyer, OfferBuyers)
    IN complete_offer(offer, entered_buyer_key, entered_seller_key,
                      seller_account_key, buyer_account_key, offer.escrow_id,
                      users[seller_account_key], users[buyer_account_key], ledger)

CompleteOffer(entered_buyer_key, entered_seller_key) ==
    /\ offer # NoRecord
    /\ LET r == CompleteOfferCall(entered_buyer_key, entered_seller_key) IN
       /\ ledger' = r.ledger
       /\ last' = Result("CompleteOffer", r.res)
       /\ released' = [released EXCEPT !["offer"] =
                          @ + ledger[offer.escrow_id] - r.ledger[offer.escrow_id]]
       /\ paid' = IF r.ledger[offer.escrow_id] < ledger[offer.escrow_id]
                  THEN [paid EXCEPT !["offer"] = @ + 1] ELSE paid
       /\ settled' = IF r.res = "Ok" THEN [settled EXCEPT !["offer"] = @ + 1] ELSE settled
       /\ IF r.res = "Ok"
          THEN /\ offer' = r.rec
               /\ users' = [users EXCEPT ![r.seller.pubkey] = r.seller,
                                         ![r.buyer.pubkey] = r.buyer]
          ELSE UNCHANGED <<offer, users>>
    /\ UNCHANGED <<request, shipment, nonce, now, locked, km, validated>>

FailOfferCall(entered_seller_key) ==
    LET buyer_account_key == PartyKey(offer.buyer, OfferBuyers)
    IN fail_offer(offer, entered_seller_key, users[buyer_account_key], offer.escrow_id, ledger)

FailOffer(entered_seller_key) ==
    /\ offer # NoRecord
    /\ LET r == FailOfferCall(entered_seller_key) IN
       /\ ledger' = r.ledger
       /\ last' = Result("FailOffer", r.res)
       /\ released' = [released EXCEPT !["offer"] =
                          @ + ledger[offer.escrow_id] - r.ledger[offer.escrow_id]]
       /\ settled' = IF r.res = "Ok" THEN [settled EXCEPT !["offer"] = @ + 1] ELSE settled
       /\ IF r.res = "Ok"
          THEN /\ offer' = r.rec
               /\ users' = [users EXCEPT ![r.buyer.pubkey] = r.buyer]
          ELSE UNCHANGED <<offer, users>>
    /\ UNCHANGED <<request, shipment, nonce, now, locked, km, validated, paid>>

ExpireOfferCall ==
    expire_offer(offer, offer.escrow_id, offer.seller.pubkey,
                 PartyKey(offer.buyer, OfferBuyers), now, ledger)

ExpireOffer ==
    /\ offer # NoRecord
    /\ LET r == ExpireOfferCall IN
       /\ ledger' = r.ledger
       /\ last' = Result("ExpireOffer", r.res)
       /\ released' = [released EXCEPT !["offer"] =
                          @ + ledger[offer.escrow_id] - r.ledger[offer.escrow_id]]
       /\ offer' = IF r.res = "Ok" THEN r.rec ELSE offer
    /\ UNCHANGED <<users, request, shipment, nonce, now, locked, km, validated, settled, paid>>

CancelOfferCall ==
    cancel_offer(offer, offer.seller.pubkey, offer.escrow_id, ledger)

CancelOffer ==
    /\ offer # NoRecord
    /\ LET r == CancelOfferCall IN
       /\ ledger' = r.ledger
       /\ last' = Result("CancelOffer", r.res)
       /\ released' = [released EXCEPT !["offer"] =
                          @ + ledger[offer.escrow_id] - r.ledger[offer.escrow_id]]
       /\ offer' = IF r.res = "Ok" THEN r.rec ELSE offer
    /\ UNCHANGED <<users, request, shipment, nonce, now, locked, km, validated, settled, paid>>

OfferCommand ==
    \/ \E s \in OfferSellers, p \in Amounts, m \in MeetingTimes : ListOffer(s, p, m)
    \/ \E b \in OfferBuyers : AcceptOffer(b)
    \/ /\ offer # NoRecord
       /\ \E kb \in KeyGuesses(offer.buyer_key), ks \in KeyGuesses(offer.seller_key) :
             CompleteOffer(kb, ks)
    \/ /\ offer # NoRecord
       /\ \E ks \in KeyGuesses(offer.seller_key) : FailOffer(ks)
    \/ ExpireOffer
    \/ CancelOffer

---------------------------------------------------------------------------
(* processor.rs: Request commands *)

ListRequestCall(buyer_account_key, payment, meeting_datetime) ==
    IF users[buyer_account_key].wallet_balance < u64_mul(2, payment)
    THEN [res |-> "InsufficientFunds", rec |-> NoRecord,
          buyer |-> users[buyer_account_key], ledger |-> ledger]
    ELSE list_request(1, users[buyer_account_key], payment, meeting_datetime,
                      "escrow_request", ledger)

ListRequest(buyer_account_key, payment, meeting_datetime) ==
    /\ request = NoRecord
    /\ Listed < MaxDeals
    /\ LET r == ListRequestCall(buyer_account_key, payment, meeting_datetime) IN
       /\ ledger' = r.ledger
       /\ last' = Result("ListRequest", r.res)
       /\ IF r.res = "Ok"
          THEN /\ request' = r.rec
               /\ users' = [users EXCEPT ![buyer_account_key] = r.buyer]
               /\ locked' = [locked EXCEPT !["request"] =
                                r.ledger["escrow_request"] - ledger["escrow_request"]]
          ELSE UNCHANGED <<request, users, locked>>
    /\ UNCHANGED <<offer, shipment, nonce, now, km, validated, settled, released, paid>>

AcceptRequestCall(seller_account_key) ==
    accept_request(request, users[seller_account_key], seller_account_key, request.escrow_id,
                   nonce["request"], ledger)

AcceptRequest(seller_account_key) ==
    /\ request # NoRecord
    /\ nonce["request"] < MaxKeyGens \/ request.status # "Listed"
    /\ LET r == AcceptRequestCall(seller_account_key) IN
       /\ ledger' = r.ledger
       /\ last' = Result("AcceptRequest", r.res)
       /\ IF r.res = "Ok"
          THEN /\ request' = r.rec
               /\ nonce' = [nonce EXCEPT !["request"] = @ + 1]
               /\ locked' = [locked EXCEPT !["request"] =
                                @ + r.ledger[request.escrow_id] - ledger[request.escrow_id]]
          ELSE UNCHANGED <<request, nonce, locked>>
    /\ UNCHANGED <<users, offer, shipment, now, km, validated, settled, released, paid>>

CompleteRequestCall(entered_buyer_key, entered_seller_key) ==
    LET seller_account_key == PartyKey(request.seller, RequestSellers)
        buyer_account_key == request.buyer.pubkey
    IN complete_request(request, entered_buyer_key, entered_seller_key,
                        seller_account_key, buyer_account_key, request.escrow_id,
                        users[seller_account_key], users[buyer_account_key], ledger)

CompleteRequest(entered_buyer_key, entered_seller_key) ==
    /\ request # NoRecord
    /\ LET r == CompleteRequestCall(entered_buyer_key, entered_seller_key) IN
       /\ ledger' = r.ledger
       /\ last' = Result("CompleteRequest", r.res)
       /\ released' = [released EXCEPT !["request"] =
                          @ + ledger[request.escrow_id] - r.ledger[request.escrow_id]]
       /\ paid' = IF r.ledger[request.escrow_id] < ledger[request.escrow_id]
                  THEN [paid EXCEPT !["request"] = @ + 1] ELSE paid
       /\ settled' = IF r.res = "Ok" THEN [settled EXCEPT !["request"] = @ + 1] ELSE settled
       /\ IF r.res = "Ok"
          THEN /\ request' = r.rec
               /\ users' = [users EXCEPT ![r.seller.pubkey] = r.seller,
                                         ![r.buyer.pubkey] = r.buyer]
          ELSE UNCHANGED <<request, users>>
    /\ UNCHANGED <<offer, shipment, nonce, now, locked, km, validated>>

FailRequestCall(entered_seller_key) ==
    fail_request(request, entered_seller_key, users[request.buyer.pubkey],
                 request.escrow_id, ledger)

FailRequest(entered_seller_key) ==
    /\ request # NoRecord
    /\ LET r == FailRequestCall(entered_seller_key) IN
       /\ ledger' = r.ledger
       /\ last' = Result("FailRequest", r.res)
       /\ released' = [released EXCEPT !["request"] =
                          @ + ledger[request.escrow_id] - r.ledger[request.escrow_id]]
       /\ settled' = IF r.res = "Ok" THEN [settled EXCEPT !["request"] = @ + 1] ELSE settled
       /\ IF r.res = "Ok"
          THEN /\ request' = r.rec
               /\ users' = [users EXCEPT ![r.buyer.pubkey] = r.buyer]
          ELSE UNCHANGED <<request, users>>
    /\ UNCHANGED <<offer, shipment, nonce, now, locked, km, validated, paid>>

ExpireRequestCall ==
    expire_request(request, request.escrow_id, PartyKey(request.seller, RequestSellers),
                   request.buyer.pubkey, now, ledger)

ExpireRequest ==
    /\ request # NoRecord
    /\ LET r == ExpireRequestCall IN
       /\ ledger' = r.ledger
       /\ last' = Result("ExpireRequest", r.res)
       /\ released' = [released EXCEPT !["request"] =
                          @ + ledger[request.escrow_id] - r.ledger[request.escrow_id]]
       /\ request' = IF r.res = "Ok" THEN r.rec ELSE request
    /\ UNCHANGED <<users, offer, shipment, nonce, now, locked, km, validated, settled, paid>>

\* the command names the account to refund as seller_account_key
CancelRequestCall(seller_account_key) ==
    cancel_request(request, seller_account_key, request.escrow_id, ledger)

CancelRequest(seller_account_key) ==
    /\ request # NoRecord
    /\ LET r == CancelRequestCall(seller_account_key) IN
       /\ ledger' = r.ledger
       /\ last' = Result("CancelRequest", r.res)
       /\ released' = [released EXCEPT !["request"] =
                          @ + ledger[request.escrow_id] - r.ledger[request.escrow_id]]
       /\ request' = IF r.res = "Ok" THEN r.rec ELSE request
    /\ UNCHANGED <<users, offer, shipment, nonce, now, locked, km, validated, settled, paid>>

RequestCommand ==
    \/ \E b \in RequestBuyers, p \in Amounts, m \in MeetingTimes : ListRequest(b, p, m)
    \/ \E s \in RequestSellers : AcceptRequest(s)
    \/ /\ request # NoRecord
       /\ \E kb \in KeyGuesses(request.buyer_key), ks \in KeyGuesses(request.seller_key) :
             CompleteRequest(kb, ks)
    \/ /\ request # NoRecord
       /\ \E ks \in KeyGuesses(request.seller_key) : FailRequest(ks)
    \/ ExpireRequest
    \/ /\ request # NoRecord
       /\ \E a \in {request.buyer.pubkey} \cup RequestSellers : CancelRequest(a)

---------------------------------------------------------------------------
(* processor.rs: Shipment commands *)

ListShipmentCall(sender_account_key, recipient, payment, insurance, drop_off_datetime) ==
    IF users[sender_account_key].wallet_balance < payment
    THEN [res |-> "InsufficientFunds", rec |-> NoRecord,
          sender |-> users[sender_account_key], ledger |-> ledger]
    ELSE list_shipment(1, users[sender_account_key], users[recipient], payment, insurance,
                       drop_off_datetime, "escrow_shipment", ledger)

ListShipment(sender_account_key, recipient, payment, insurance, drop_off_datetime) ==
    /\ shipment = NoRecord
    /\ Listed < MaxDeals
    /\ LET r == ListShipmentCall(sender_account_key, recipient, payment, insurance,
                                 drop_off_datetime) IN
       /\ ledger' = r.ledger
       /\ last' = Result("ListShipment", r.res)
       /\ IF r.res = "Ok"
          THEN /\ shipment' = r.rec
               /\ users' = [users EXCEPT ![sender_account_key] = r.sender]
               /\ locked' = [locked EXCEPT !["shipment"] =
                                r.ledger["escrow_shipment"] - ledger["escrow_shipment"]]
          ELSE UNCHANGED <<shipment, users, locked>>
    /\ UNCHANGED <<offer, request, nonce, now, km, validated, settled, released, paid>>

AcceptShipmentCall(carrier_account_key) ==
    accept_shipment(shipment, users[carrier_account_key], carrier_account_key,
                    shipment.escrow_id, nonce["shipment"], ledger)

AcceptShipment(carrier_account_key) ==
    /\ shipment # NoRecord
    /\ nonce["shipment"] < MaxKeyGens \/ shipment.status # "Listed"
    /\ LET r == AcceptShipmentCall(carrier_account_key) IN
       /\ ledger' = r.ledger
       /\ last' = Result("AcceptShipment", r.res)
       /\ IF r.res = "Ok"
          THEN /\ shipment' = r.rec
               /\ users' = [users EXCEPT ![carrier_account_key] = r.carrier]
               /\ nonce' = [nonce EXCEPT !["shipment"] = @ + 1]
               /\ locked' = [locked EXCEPT !["shipment"] =
                                @ + r.ledger[shipment.escrow_id] - ledger[shipment.escrow_id]]
          ELSE UNCHANGED <<shipment, users, nonce, locked>>
    /\ UNCHANGED <<offer, request, now, km, validated, settled, released, paid>>

CompleteShipmentCall(entered_carrier_key, entered_recipient_key) ==
    LET sender_account_key == shipment.sender.pubkey
        carrier_account_key == PartyKey(shipment.carrier, ShipmentCarriers)
    IN complete_shipment(shipment, entered_carrier_key, entered_recipient_key,
                         sender_account_key, carrier_account_key, shipment.escrow_id,
                         users[sender_account_key], users[carrier_account_key], ledger)

CompleteShipment(entered_carrier_key, entered_recipient_key) ==
    /\ shipment # NoRecord
    /\ LET r == CompleteShipmentCall(entered_carrier_key, entered_recipient_key) IN
       /\ ledger' = r.ledger
       /\ last' = Result("CompleteShipment", r.res)
       /\ released' = [released EXCEPT !["shipment"] =
                          @ + ledger[shipment.escrow_id] - r.ledger[shipment.escrow_id]]
       /\ paid' = IF r.ledger[shipment.escrow_id] < ledger[shipment.escrow_id]
                  THEN [paid EXCEPT !["shipment"] = @ + 1] ELSE paid
       /\ settled' = IF r.res = "Ok" THEN [settled EXCEPT !["shipment"] = @ + 1] ELSE settled
       /\ IF r.res = "Ok"
          THEN /\ shipment' = r.rec
               /\ users' = [users EXCEPT ![r.sender.pubkey] = r.sender,
                                         ![r.carrier.pubkey] = r.carrier]
          ELSE UNCHANGED <<shipment, users>>
    /\ UNCHANGED <<offer, request, nonce, now, locked, km, validated>>

FailShipmentCall(entered_sender_key) ==
    fail_shipment(shipment, entered_sender_key,
                  users[PartyKey(shipment.carrier, ShipmentCarriers)],
                  shipment.escrow_id, ledger)

FailShipment(entered_sender_key) ==
    /\ shipment # NoRecord
    /\ LET r == FailShipmentCall(entered_sender_key) IN
       /\ ledger' = r.ledger
       /\ last' = Result("FailShipment", r.res)
       /\ released' = [released EXCEPT !["shipment"] =
                          @ + ledger[shipment.escrow_id] - r.ledger[shipment.escrow_id]]
       /\ settled' = IF r.res = "Ok" THEN [settled EXCEPT !["shipment"] = @ + 1] ELSE settled
       /\ IF r.res = "Ok"
          THEN /\ shipment' = r.rec
               /\ users' = [users EXCEPT ![r.carrier.pubkey] = r.carrier]
          ELSE UNCHANGED <<shipment, users>>
    /\ UNCHANGED <<offer, request, nonce, now, locked, km, validated, paid>>

ExpireShipmentCall ==
    expire_shipment(shipment, shipment.escrow_id, shipment.sender.pubkey,
                    PartyKey(shipment.carrier, ShipmentCarriers), now, ledger)

ExpireShipment ==
    /\ shipment # NoRecord
    /\ LET r == ExpireShipmentCall IN
       /\ ledger' = r.ledger
       /\ last' = Result("ExpireShipment", r.res)
       /\ released' = [released EXCEPT !["shipment"] =
                          @ + ledger[shipment.escrow_id] - r.ledger[shipment.escrow_id]]
       /\ shipment' = IF r.res = "Ok" THEN r.rec ELSE shipment
    /\ UNCHANGED <<users, offer, request, nonce, now, locked, km, validated, settled, paid>>

CancelShipmentCall ==
    cancel_shipment(shipment, shipment.sender.pubkey, shipment.escrow_id, ledger)

CancelShipment ==
    /\ shipment # NoRecord
    /\ LET r == CancelShipmentCall IN
       /\ ledger' = r.ledger
       /\ last' = Result("CancelShipment", r.res)
       /\ released' = [released EXCEPT !["shipment"] =
                          @ + ledger[shipment.escrow_id] - r.ledger[shipment.escrow_id]]
       /\ shipment' = IF r.res = "Ok" THEN r.rec ELSE shipment
    /\ UNCHANGED <<users, offer, request, nonce, now, locked, km, validated, settled, paid>>

ShipmentCommand ==
    \/ \E s \in ShipmentSenders, rc \in ShipmentRecipients, p \in Amounts, i \in Amounts,
          d \in MeetingTimes : ListShipment(s, rc, p, i, d)
    \/ \E c \in ShipmentCarriers : AcceptShipment(c)
    \/ /\ shipment # NoRecord
       /\ \E kc \in KeyGuesses(shipment.carrier_key), kr \in KeyGuesses(shipment.recipient_key) :
             CompleteShipment(kc, kr)
    \/ /\ shipment # NoRecord
       /\ \E ks \in KeyGuesses(shipment.sender_key) : FailShipment(ks)
    \/ ExpireShipment
    \/ CancelShipment

---------------------------------------------------------------------------
(* onetimekeys.rs: the KeyManager on its own *)

KmDealIds == {1}
KmShipmentIds == {1}
\* every key a caller can present: the empty string, a never issued one, every issued one
KmKeys == 0 .. (1 + 3 * MaxGenerate)

GenerateDealKeys(deal_id) ==
    /\ km.generated < MaxGenerate
    /\ km' = generate_deal_keys(km, deal_id)
    /\ last' = Result("generate_deal_keys", "Ok")
    /\ UNCHANGED <<ledger, users, offer, request, shipment, nonce, now, locked, validated, settled, released, paid>>

GenerateShipmentKeys(shipment_id) ==
    /\ km.generated < MaxGenerate
    /\ km' = generate_shipment_keys(km, shipment_id)
    /\ last' = Result("generate_shipment_keys", "Ok")
    /\ UNCHANGED <<ledger, users, offer, request, shipment, nonce, now, locked, validated, settled, released, paid>>

ValidateAndUseKey(key) ==
    LET r == validate_and_use_key(km, key) IN
    /\ km' = r.km
    /\ last' = Result("validate_and_use_key", IF r.res THEN "true" ELSE "false")
    /\ validated' = [true_for |-> IF r.res THEN validated.true_for \cup {key}
                                           ELSE validated.true_for,
                     repeated |-> IF key \in validated.true_for
                                  THEN validated.repeated \cup {key} ELSE validated.repeated,
                     true_again |-> IF r.res /\ key \in validated.true_for
                                    THEN validated.true_again \cup {key}
                                    ELSE validated.true_again]
    /\ UNCHANGED <<ledger, users, offer, request, shipment, nonce, now, locked, settled, released, paid>>

NextKeys ==
    \/ \E d \in KmDealIds : GenerateDealKeys(d)
    \/ \E d \in KmShipmentIds : GenerateShipmentKeys(d)
    \/ \E k \in KmKeys : ValidateAndUseKey(k)

SpecKeys == Init /\ [][NextKeys]_vars

---------------------------------------------------------------------------
(* the clock and the specification *)

Tick ==
    /\ now < MaxTick
    /\ now' = now + 1
    /\ UNCHANGED <<ledger, users, offer, request, shipment, nonce, locked, last, km, validated, settled, released, paid>>

Next ==
    \/ OfferCommand
    \/ RequestCommand
    \/ ShipmentCommand
    \/ Tick

Spec == Init /\ [][Next]_vars

---------------------------------------------------------------------------
(* the public setter of the records, which no command of the processor calls *)

UpdateOfferStatus(new_status) ==
    /\ offer # NoRecord
    /\ offer' = update_status(offer, new_status)
    /\ last' = Result("Offer::update_status", "Ok")
    /\ UNCHANGED <<ledger, users, request, shipment, nonce, now, locked, km, validated, settled, released, paid>>

UpdateRequestStatus(new_status) ==
    /\ request # NoRecord
    /\ request' = update_status(request, new_status)
    /\ last' = Result("Request::update_status", "Ok")
    /\ UNCHANGED <<ledger, users, offer, shipment, nonce, now, locked, km, validated, settled, released, paid>>

UpdateShipmentStatus(new_status) ==
    /\ shipment # NoRecord
    /\ shipment' = update_status(shipment, new_status)
    /\ last' = Result("Shipment::update_status", "Ok")
    /\ UNCHANGED <<ledger, users, offer, request, nonce, now, locked, km, validated, settled, released, paid>>

NextApi ==
    \/ Next
    \/ \E st \in Statuses : UpdateOfferStatus(st)
    \/ \E st \in Statuses : UpdateRequestStatus(st)
    \/ \E st \in Statuses : UpdateShipmentStatus(st)

SpecApi == Init /\ [][NextApi]_vars

---------------------------------------------------------------------------
(* user.rs alone: outcomes marked on one participant, up to MaxOutcomes of them *)

MarkedParticipants == {"alice"}

MarkDeal(p, successful) ==
    /\ users[p].total_deals + users[p].total_shipments < MaxOutcomes
    /\ users' = [users EXCEPT ![p] = mark_deal(@, successful)]
    /\ last' = Result("mark_deal", "Ok")
    /\ UNCHANGED <<ledger, offer, request, shipment, nonce, now, locked, km, validated, settled, released, paid>>

MarkShipment(p, successful) ==
    /\ users[p].total_deals + users[p].total_shipments < MaxOutcomes
    /\ users' = [users EXCEPT ![p] = mark_shipment(@, successful)]
    /\ last' = Result("mark_shipment", "Ok")
    /\ UNCHANGED <<ledger, offer, request, shipment, nonce, now, locked, km, validated, settled, released, paid>>

NextMarks ==
    \/ \E p \in MarkedParticipants, successful \in BOOLEAN : MarkDeal(p, successful)
    \/ \E p \in MarkedParticipants, successful \in BOOLEAN : MarkShipment(p, successful)

SpecMarks == Init /\ [][NextMarks]_vars

---------------------------------------------------------------------------
(* two counterparties that both submit accept for the same deal, one command at a time *)

RaceOfferBuyers == {"bob", "carol"}
RaceRequestSellers == {"alice", "carol"}
RaceShipmentCarriers == {"alice", "bob"}

NextRace ==
    \/ \E s \in OfferSellers, p \in Amounts, m \in MeetingTimes : ListOffer(s, p, m)
    \/ \E b \in RequestBuyers, p \in Amounts, m \in MeetingTimes : ListRequest(b, p, m)
    \/ \E s \in ShipmentSenders, rc \in ShipmentRecipients, p \in Amounts, i \in Amounts,
          d \in MeetingTimes : ListShipment(s, rc, p, i, d)
    \/ \E b \in RaceOfferBuyers : AcceptOffer(b)
    \/ \E x \in RaceRequestSellers : AcceptRequest(x)
    \/ \E c \in RaceShipmentCarriers : AcceptShipment(c)
    \/ CancelOffer
    \/ CancelShipment
    \/ Tick

SpecRace == Init /\ [][NextRace]_vars

---------------------------------------------------------------------------
(* several deals that reference one custody account *)

\* the custody account handed to every list
SharedCustody == "escrow_offer"

ListOfferShared(seller_account_key, payment, meeting_datetime) ==
    /\ offer = NoRecord
    /\ Listed < MaxSharedDeals
    /\ LET r == IF users[seller_account_key].wallet_balance < payment
                THEN [res |-> "InsufficientFunds", rec |-> NoRecord,
                      seller |-> users[seller_account_key], ledger |-> ledger]
                ELSE list_offer(1, users[seller_account_key], payment, meeting_datetime,
                                SharedCustody, ledger)
       IN
       /\ ledger' = r.ledger
       /\ last' = Result("ListOffer", r.res)
       /\ IF r.res = "Ok"
          THEN /\ offer' = r.rec
               /\ users' = [users EXCEPT ![seller_account_key] = r.seller]
               /\ locked' = [locked EXCEPT !["offer"] =
                                r.ledger[SharedCustody] - ledger[SharedCustody]]
          ELSE UNCHANGED <<offer, users, locked>>
    /\ UNCHANGED <<request, shipment, nonce, now, km, validated, settled, released, paid>>

ListRequestShared(buyer_account_key, payment, meeting_datetime) ==
    /\ request = NoRecord
    /\ Listed < MaxSharedDeals
    /\ LET r == IF users[buyer_account_key].wallet_balance < u64_mul(2, payment)
                THEN [res |-> "InsufficientFunds", rec |-> NoRecord,
                      buyer |-> users[buyer_account_key], ledger |-> ledger]
                ELSE list_request(1, users[buyer_account_key], payment, meeting_datetime,
                                  SharedCustody, ledger)
       IN
       /\ ledger' = r.ledger
       /\ last' = Result("ListRequest", r.res)
       /\ IF r.res = "Ok"
          THEN /\ request' = r.rec
               /\ users' = [users EXCEPT ![buyer_account_key] = r.buyer]
               /\ locked' = [locked EXCEPT !["request"] =
                                r.ledger[SharedCustody] - ledger[SharedCustody]]
          ELSE UNCHANGED <<request, users, locked>>
    /\ UNCHANGED <<offer, shipment, nonce, now, km, validated, settled, released, paid>>

ListShipmentShared(sender_account_key, recipient, payment, insurance, drop_off_datetime) ==
    /\ shipment = NoRecord
    /\ Listed < MaxSharedDeals
    /\ LET r == IF users[sender_account_key].wallet_balance < payment
                THEN [res |-> "InsufficientFunds", rec |-> NoRecord,
                      sender |-> users[sender_account_key], ledger |-> ledger]
                ELSE list_shipment(1, users[sender_account_key], users[recipient], payment,
                                   insurance, drop_off_datetime, SharedCustody, ledger)
       IN
       /\ ledger' = r.ledger
       /\ last' = Result("ListShipment", r.res)
       /\ IF r.res = "Ok"
          THEN /\ shipment' = r.rec
               /\ users' = [users EXCEPT ![sender_account_key] = r.sender]
               /\ locked' = [locked EXCEPT !["shipment"] =
                                r.ledger[SharedCustody] - ledger[SharedCustody]]
          ELSE UNCHANGED <<shipment, users, locked>>
    /\ UNCHANGED <<offer, request, nonce, now, km, validated, settled, released, paid>>

NextShared ==
    \/ \E s \in OfferSellers, p \in Amounts, m \in MeetingTimes : ListOfferShared(s, p, m)
    \/ \E b \in RequestBuyers, p \in Amounts, m \in MeetingTimes : ListRequestShared(b, p, m)
    \/ \E s \in ShipmentSenders, rc \in ShipmentRecipients, p \in Amounts, i \in Amounts,
          d \in MeetingTimes : ListShipmentShared(s, rc, p, i, d)
    \/ \E b \in OfferBuyers : AcceptOffer(b)
    \/ \E x \in RequestSellers : AcceptRequest(x)
    \/ \E c \in ShipmentCarriers : AcceptShipment(c)
    \/ /\ offer # NoRecord
       /\ \E kb \in KeyGuesses(offer.buyer_key), ks \in KeyGuesses(offer.seller_key) :
             CompleteOffer(kb, ks)
    \/ /\ request # NoRecord
       /\ \E kb \in KeyGuesses(request.buyer_key), ks \in KeyGuesses(request.seller_key) :
             CompleteRequest(kb, ks)
    \/ /\ shipment # NoRecord
       /\ \E kc \in KeyGuesses(shipment.carrier_key), kr \in KeyGuesses(shipment.recipient_key) :
             CompleteShipment(kc, kr)
    \/ /\ offer # NoRecord
       /\ \E ks \in KeyGuesses(offer.seller_key) : FailOffer(ks)
    \/ /\ request # NoRecord
       /\ \E ks \in KeyGuesses(request.seller_key) : FailRequest(ks)
    \/ /\ shipment # NoRecord
       /\ \E ks \in KeyGuesses(shipment.sender_key) : FailShipment(ks)
    \/ ExpireOffer
    \/ ExpireRequest
    \/ ExpireShipment
    \/ CancelOffer
    \/ /\ request # NoRecord
       /\ \E a \in {request.buyer.pubkey} \cup RequestSellers : CancelRequest(a)
    \/ CancelShipment
    \/ Tick

SpecShared == Init /\ [][NextShared]_vars

---------------------------------------------------------------------------
(* properties of the escrow state machine *)

CompleteOps == {"CompleteOffer", "CompleteRequest", "CompleteShipment"}

Records == [offer |-> offer, request |-> request, shipment |-> shipment]

\* the tokens the custody account of a record holds
Custody(kind) == get_balance(ledger, Records[kind].escrow_id)

\* every key a caller could present for a record kind: the empty string, a string that
\* was never issued, and every key issued so far to a role of that kind
PresentableKeys(kind) ==
    {EmptyKey, BogusKey} \cup
    {generate_key(kind, role, n) :
        role \in (IF kind = "shipment" THEN {"sender", "carrier", "recipient"}
                                       ELSE {"seller", "buyer"}),
        n \in 0 .. (nonce[kind] - 1)}

\* C1: a complete that ends with KeyMismatch leaves the custody holdings, every
\* participant's balance, the key slots and the status of the record unchanged.
C1_KeyMismatchChangesNothing ==
    [][(last'.op \in CompleteOps /\ last'.res = "KeyMismatch")
          => UNCHANGED <<ledger, users, offer, request, shipment, released, paid>>]_vars

\* the lifecycle graph; a record comes into being as Listed
LifecycleEdges ==
    {<<"NoRecord", "Listed">>, <<"Listed", "Accepted">>, <<"Listed", "Canceled">>,
     <<"Accepted", "Completed">>, <<"Accepted", "Failed">>, <<"Accepted", "Expired">>}

OnLifecycle(before, after) == before = after \/ <<before, after>> \in LifecycleEdges

\* C2: whatever commands are issued, and whether they succeed or fail, the status of a
\* record changes only from Listed to Accepted or Canceled, and from Accepted to
\* Completed, Failed or Expired.
C2_StatusFollowsLifecycle ==
    [][/\ OnLifecycle(offer.status, offer'.status)
       /\ OnLifecycle(request.status, request'.status)
       /\ OnLifecycle(shipment.status, shipment'.status)]_vars

\* a failing expire has just left an Expired offer, which went through Accepted, as it was
C2_Witness ==
    /\ offer # NoRecord
    /\ offer.status = "Expired"
    /\ last = Result("ExpireOffer", "IncorrectState")

\* C3: while a record is Listed or Accepted its custody account holds exactly what the
\* parties have locked, and once the record is terminal it holds nothing.
C3_CustodyMatchesLocked ==
    \A kind \in Kinds :
        Records[kind] # NoRecord =>
            /\ Records[kind].status \in {"Listed", "Accepted"} => Custody(kind) = locked[kind]
            /\ Records[kind].status \in Terminal => Custody(kind) = 0

\* the keys the CompleteShipment instruction carries, by the slot each is compared with
CompleteShipmentEntered(entered_carrier_key, entered_recipient_key) ==
    [carrier_key |-> entered_carrier_key, recipient_key |-> entered_recipient_key]

CompleteOfferEntered(entered_buyer_key, entered_seller_key) ==
    [buyer_key |-> entered_buyer_key, seller_key |-> entered_seller_key]

\* the key slots of a record kind
KeySlots(kind) == IF kind = "shipment" THEN {"sender_key", "carrier_key", "recipient_key"}
                                       ELSE {"buyer_key", "seller_key"}

\* the presented keys match the secret of every slot of the record
AllSecretsMatch(kind, entered) ==
    \A slot \in KeySlots(kind) :
        slot \in DOMAIN entered /\ entered[slot] = Records[kind][slot]

\* C4: complete succeeds only on an Accepted record and only when the secret of every
\* required role is presented and matches: buyer and seller for an offer or a request,
\* sender, carrier and recipient for a shipment.
C4_CompleteNeedsEverySecret ==
    /\ offer # NoRecord =>
         \A kb \in PresentableKeys("offer"), ks \in PresentableKeys("offer") :
            CompleteOfferCall(kb, ks).res = "Ok" =>
               offer.status = "Accepted" /\ AllSecretsMatch("offer", CompleteOfferEntered(kb, ks))
    /\ request # NoRecord =>
         \A kb \in PresentableKeys("request"), ks \in PresentableKeys("request") :
            CompleteRequestCall(kb, ks).res = "Ok" =>
               request.status = "Accepted"
               /\ AllSecretsMatch("request", CompleteOfferEntered(kb, ks))
    /\ shipment # NoRecord =>
         \A kc \in PresentableKeys("shipment"), kr \in PresentableKeys("shipment") :
            CompleteShipmentCall(kc, kr).res = "Ok" =>
               shipment.status = "Accepted"
               /\ AllSecretsMatch("shipment", CompleteShipmentEntered(kc, kr))

\* C5: a successful complete pays the payment to the providing role and returns each
\* insurance to the party that locked it, leaves the custody account empty and the record
\* Completed; an offer of payment p that is the only deal ends with the seller p above
\* and the buyer p below their starting balances.
C5_CompleteReleasesEverything ==
    /\ offer # NoRecord =>
         \A kb \in PresentableKeys("offer"), ks \in PresentableKeys("offer") :
            LET r == CompleteOfferCall(kb, ks)
                seller_account == offer.seller.pubkey
                buyer_account == PartyKey(offer.buyer, OfferBuyers)
            IN r.res = "Ok" =>
                 /\ r.rec.status = "Completed"
                 /\ r.ledger[offer.escrow_id] = 0
                 /\ r.ledger[seller_account] =
                       ledger[seller_account] + offer.payment + offer.insurance
                 /\ r.ledger[buyer_account] = ledger[buyer_account] + offer.insurance
                 /\ \A a \in Accounts \ {seller_account, buyer_account, offer.escrow_id} :
                       r.ledger[a] = ledger[a]
    /\ request # NoRecord =>
         \A kb \in PresentableKeys("request"), ks \in PresentableKeys("request") :
            LET r == CompleteRequestCall(kb, ks)
                seller_account == PartyKey(request.seller, RequestSellers)
                buyer_account == request.buyer.pubkey
            IN r.res = "Ok" =>
                 /\ r.rec.status = "Completed"
                 /\ r.ledger[request.escrow_id] = 0
                 /\ r.ledger[seller_account] =
                       ledger[seller_account] + request.payment + request.insurance
                 /\ r.ledger[buyer_account] = ledger[buyer_account] + request.insurance
                 /\ \A a \in Accounts \ {seller_account, buyer_account, request.escrow_id} :
                       r.ledger[a] = ledger[a]
    /\ shipment # NoRecord =>
         \A kc \in PresentableKeys("shipment"), kr \in PresentableKeys("shipment") :
            LET r == CompleteShipmentCall(kc, kr)
                carrier_account == PartyKey(shipment.carrier, ShipmentCarriers)
            IN r.res = "Ok" =>
                 /\ r.rec.status = "Completed"
                 /\ r.ledger[shipment.escrow_id] = 0
                 /\ r.ledger[carrier_account] =
                       ledger[carrier_account] + shipment.payment + shipment.insurance
                 /\ \A a \in Accounts \ {carrier_account, shipment.escrow_id} :
                       r.ledger[a] = ledger[a]
    /\ (offer # NoRecord /\ offer.status = "Completed"
        /\ request = NoRecord /\ shipment = NoRecord) =>
         /\ ledger[offer.seller.pubkey] = InitialBalance + offer.payment
         /\ ledger[offer.buyer.pubkey] = InitialBalance - offer.payment
         /\ Custody("offer") = 0

\* an offer has just been completed and its seller holds the payment on top of the start
C5_Witness ==
    /\ last = Result("CompleteOffer", "Ok")
    /\ offer.status = "Completed"
    /\ ledger[offer.seller.pubkey] = InitialBalance + offer.payment
    /\ ledger[offer.buyer.pubkey] = InitialBalance - offer.payment

\* C6: on an Accepted offer, complete with a wrong buyer secret returns KeyMismatch
\* whatever seller secret comes with it, and moves no funds, keeps the status and keeps
\* both issued secrets, so that a complete with the correct secrets fares after it as it
\* would have fared before it.
C6_WrongBuyerKeyChangesNothing ==
    (offer # NoRecord /\ offer.status = "Accepted") =>
       \A kb \in PresentableKeys("offer") \ {offer.buyer_key}, ks \in PresentableKeys("offer") :
          LET r == CompleteOfferCall(kb, ks)
              seller_account == offer.seller.pubkey
              buyer_account == PartyKey(offer.buyer, OfferBuyers)
          IN /\ r.res = "KeyMismatch"
             /\ r.ledger = ledger
             /\ r.rec = offer
             /\ r.seller = users[seller_account] /\ r.buyer = users[buyer_account]
             /\ r.rec.status = "Accepted"
             /\ r.rec.buyer_key # EmptyKey /\ r.rec.seller_key # EmptyKey
             /\ complete_offer(r.rec, offer.buyer_key, offer.seller_key, seller_account,
                               buyer_account, offer.escrow_id, r.seller, r.buyer,
                               r.ledger).res
                  = CompleteOfferCall(offer.buyer_key, offer.seller_key).res

\* a complete has just been refused for its key with the custody account untouched (so
\* the buyer's key was the wrong one), and a complete with the right keys would succeed
C6_Witness ==
    /\ last = Result("CompleteOffer", "KeyMismatch")
    /\ offer.status = "Accepted"
    /\ Custody("offer") = locked["offer"]
    /\ CompleteOfferCall(offer.buyer_key, offer.seller_key).res = "Ok"

\* C7: once a record is Completed, Failed, Expired or Canceled, no operation of the
\* interface, update_status included, changes its status or any other field of it.
C7_TerminalRecordsAreImmutable ==
    [][/\ offer.status \in Terminal => offer' = offer
       /\ request.status \in Terminal => request' = request
       /\ shipment.status \in Terminal => shipment' = shipment]_vars

\* what a command reports and would leave behind
Outcome(r) == [res |-> r.res, rec |-> r.rec, ledger |-> r.ledger]

\* the attempts at accept, cancel, complete and fail that the lifecycle excludes
OfferOffGraph ==
    (IF offer.status # "Listed"
     THEN {Outcome(AcceptOfferCall(b)) : b \in OfferBuyers} \cup {Outcome(CancelOfferCall)}
     ELSE {})
    \cup
    (IF offer.status # "Accepted"
     THEN {Outcome(CompleteOfferCall(kb, ks)) :
              kb \in PresentableKeys("offer"), ks \in PresentableKeys("offer")}
          \cup {Outcome(FailOfferCall(ks)) : ks \in PresentableKeys("offer")}
     ELSE {})

RequestOffGraph ==
    (IF request.status # "Listed"
     THEN {Outcome(AcceptRequestCall(x)) : x \in RequestSellers}
          \cup {Outcome(CancelRequestCall(x)) : x \in {request.buyer.pubkey} \cup RequestSellers}
     ELSE {})
    \cup
    (IF request.status # "Accepted"
     THEN {Outcome(CompleteRequestCall(kb, ks)) :
              kb \in PresentableKeys("request"), ks \in PresentableKeys("request")}
          \cup {Outcome(FailRequestCall(ks)) : ks \in PresentableKeys("request")}
     ELSE {})

ShipmentOffGraph ==
    (IF shipment.status # "Listed"
     THEN {Outcome(AcceptShipmentCall(c)) : c \in ShipmentCarriers}
          \cup {Outcome(CancelShipmentCall)}
     ELSE {})
    \cup
    (IF shipment.status # "Accepted"
     THEN {Outcome(CompleteShipmentCall(kc, kr)) :
              kc \in PresentableKeys("shipment"), kr \in PresentableKeys("shipment")}
          \cup {Outcome(FailShipmentCall(k)) : k \in PresentableKeys("shipment")}
     ELSE {})

\* the attempts the lifecycle excludes, expire left aside
OffGraph(kind) ==
    IF Records[kind] = NoRecord THEN {}
    ELSE CASE kind = "offer" -> OfferOffGraph
           [] kind = "request" -> RequestOffGraph
           [] kind = "shipment" -> ShipmentOffGraph

\* expire on a record that is not Accepted
ExpireOffGraph(kind) ==
    IF Records[kind] = NoRecord \/ Records[kind].status = "Accepted" THEN {}
    ELSE CASE kind = "offer" -> {Outcome(ExpireOfferCall)}
           [] kind = "request" -> {Outcome(ExpireRequestCall)}
           [] kind = "shipment" -> {Outcome(ExpireShipmentCall)}

\* the date the grace window of a record starts from
Deadline(kind) == IF kind = "shipment" THEN Records[kind].drop_off_datetime
                                       ELSE Records[kind].meeting_datetime

\* the attempt is refused with the given error and leaves record and balances as they are
RefusedWith(kind, o, error) ==
    o.res = error /\ o.rec = Records[kind] /\ o.ledger = ledger

\* C8 as stated: every attempt outside the lifecycle graph (accept or cancel when not
\* Listed; complete, fail or expire when not Accepted) returns IncorrectState and leaves
\* the record and all balances unchanged.
C8_OffGraphIsIncorrectState ==
    \A kind \in Kinds :
        \A o \in OffGraph(kind) \cup ExpireOffGraph(kind) :
            RefusedWith(kind, o, "IncorrectState")

\* C8 amended: every attempt outside the lifecycle graph leaves the record and all
\* balances unchanged; accept, cancel, complete and fail return IncorrectState, and
\* expire on a record that is not Accepted returns OperationNotAllowed while the grace
\* window has not elapsed and IncorrectState after it.
C8_OffGraphIsRefused ==
    \A kind \in Kinds :
        /\ \A o \in OffGraph(kind) : RefusedWith(kind, o, "IncorrectState")
        /\ \A o \in ExpireOffGraph(kind) :
              RefusedWith(kind, o, IF NotExpiredYet(now, Deadline(kind))
                                   THEN "OperationNotAllowed" ELSE "IncorrectState")

\* an expire has just been refused for the status on a Listed offer, after the window
C8_Witness ==
    /\ offer # NoRecord
    /\ offer.status = "Listed"
    /\ ~NotExpiredYet(now, offer.meeting_datetime)
    /\ last = Result("ExpireOffer", "IncorrectState")

\* C9: complete and fail together succeed at most once on a record; after the success
\* every key slot of the record is empty, and no complete or fail succeeds any more,
\* whatever keys are presented, the empty one and the ones once issued included.
C9_KeysAreSingleUse ==
    /\ \A kind \in Kinds : settled[kind] <= 1
    /\ \A kind \in Kinds :
          Records[kind].status \in {"Completed", "Failed"} =>
             \A slot \in KeySlots(kind) : Records[kind][slot] = EmptyKey
    /\ offer.status \in {"Completed", "Failed"} =>
          \A kb \in PresentableKeys("offer"), ks \in PresentableKeys("offer") :
             CompleteOfferCall(kb, ks).res # "Ok" /\ FailOfferCall(ks).res # "Ok"
    /\ request.status \in {"Completed", "Failed"} =>
          \A kb \in PresentableKeys("request"), ks \in PresentableKeys("request") :
             CompleteRequestCall(kb, ks).res # "Ok" /\ FailRequestCall(ks).res # "Ok"
    /\ shipment.status \in {"Completed", "Failed"} =>
          \A kc \in PresentableKeys("shipment"), kr \in PresentableKeys("shipment") :
             CompleteShipmentCall(kc, kr).res # "Ok" /\ FailShipmentCall(kc).res # "Ok"

\* a complete has just been attempted on an offer that was completed before
C9_Witness ==
    /\ offer.status = "Completed"
    /\ settled["offer"] = 1
    /\ last = Result("CompleteOffer", "IncorrectState")

\* the keys the KeyManager holds in some slot
KmSlots ==
    UNION {{km.deal_keys[d].seller_key, km.deal_keys[d].buyer_key} : d \in DOMAIN km.deal_keys}
    \cup
    UNION {{km.shipment_keys[d].sender_key, km.shipment_keys[d].carrier_key,
            km.shipment_keys[d].recipient_key} : d \in DOMAIN km.shipment_keys}

\* C10: KeyManager::validate_and_use_key returns true at most once for a key; any later
\* call with that key returns false and changes nothing, the key being among the used keys
\* and the slot it matched being cleared.
C10_ValidateAtMostOnce ==
    /\ validated.true_again = {}
    /\ \A key \in validated.true_for :
          LET r == validate_and_use_key(km, key)
          IN /\ ~r.res
             /\ r.km = km
             /\ key \in km.used_keys
             /\ key # EmptyKey => key \notin KmSlots

\* a key that was validated before has just been presented again and refused
C10_Witness ==
    /\ validated.repeated \ {EmptyKey} # {}
    /\ last = Result("validate_and_use_key", "false")

\* C11: over any sequence of commands on a deal, failed attempts and retries included,
\* the tokens released from custody on behalf of the deal never exceed the tokens the
\* deal locked, and complete pays the provider at most once.
C11_ReleasedAtMostOnce ==
    \A kind \in Kinds :
        /\ released[kind] <= locked[kind]
        /\ paid[kind] <= 1

\* what an open deal that references the custody account has locked in it
LockedIn(escrow_account, kind) ==
    IF /\ Records[kind] # NoRecord
       /\ Records[kind].escrow_id = escrow_account
       /\ Records[kind].status \in {"Listed", "Accepted"}
    THEN locked[kind] ELSE 0

\* C12: when several deals reference one custody account, after every command the
\* balance of that account is the sum of what its deals that are not terminal have
\* locked, so no command on one deal takes value another deal locked.
C12_SharedCustodyIsSumOfLocks ==
    \A e \in EscrowAccounts :
        get_balance(ledger, e) =
            LockedIn(e, "offer") + LockedIn(e, "request") + LockedIn(e, "shipment")

\* the stored wallet balance of the participant agrees with the ledger
BalanceKnown(account) == users[account].wallet_balance = get_balance(ledger, account)

\* the ledger after is the ledger before with amount moved from payer to payee
Moved(before, after, payer, payee, amount) ==
    /\ after[payer] = before[payer] - amount
    /\ after[payee] = before[payee] + amount
    /\ \A a \in Accounts \ {payer, payee} : after[a] = before[a]

\* a list of the given amount by the initiator did what list is said to do
ListedExactly(r, initiator, stored, counterparty, amount, custody, slots) ==
    /\ r.res = "Ok" <=> get_balance(ledger, initiator) >= amount
    /\ r.res = "Ok" =>
          /\ Moved(ledger, r.ledger, initiator, custody, amount)
          /\ stored.wallet_balance = users[initiator].wallet_balance - amount
          /\ r.rec.status = "Listed"
          /\ r.rec[counterparty] = NoUser
          /\ \A slot \in slots : r.rec[slot] = EmptyKey
    /\ r.res # "Ok" =>
          /\ r.res = "InsufficientFunds"
          /\ r.ledger = ledger
          /\ stored = users[initiator]
          /\ r.rec = NoRecord

AcceptedExactly(kind, r, counterparty, slot, amount) ==
    r.res = "Ok" =>
       /\ Records[kind].status = "Listed"
       /\ r.rec.status = "Accepted"
       /\ r.rec[slot] # NoUser /\ r.rec[slot].pubkey = counterparty
       /\ \A k \in KeySlots(kind) : r.rec[k] # EmptyKey
       /\ \A k1, k2 \in KeySlots(kind) : k1 # k2 => r.rec[k1] # r.rec[k2]
       /\ Moved(ledger, r.ledger, counterparty, Records[kind].escrow_id, amount)

\* C14: accept succeeds only on a Listed record; a successful accept records the
\* counterparty, issues a non-empty key for every role (2 for an offer or a request, 3
\* for a shipment), moves exactly the counterparty's lock (payment + insurance for the
\* buyer of an offer, the insurance for the seller of a request and the carrier of a
\* shipment) from the counterparty to custody and sets the status to Accepted.
C14_AcceptLocksExactly ==
    /\ offer # NoRecord =>
          \A b \in OfferBuyers :
             AcceptedExactly("offer", AcceptOfferCall(b), b, "buyer",
                             offer.payment + offer.insurance)
    /\ request # NoRecord =>
          \A x \in RequestSellers :
             AcceptedExactly("request", AcceptRequestCall(x), x, "seller", request.insurance)
    /\ shipment # NoRecord =>
          \A c \in ShipmentCarriers :
             AcceptedExactly("shipment", AcceptShipmentCall(c), c, "carrier",
                             shipment.insurance)

\* a shipment has just been accepted: three keys are issued and the carrier's insurance
\* is in custody on top of the sender's payment
C14_Witness ==
    /\ last = Result("AcceptShipment", "Ok")
    /\ shipment.status = "Accepted"
    /\ shipment.carrier # NoUser
    /\ \A k \in KeySlots("shipment") : shipment[k] # EmptyKey
    /\ Custody("shipment") = shipment.payment + shipment.insurance

\* an accept that failed for lack of funds left the record it was called on, and the
\* ledger, as they were
LeftUntouched(kind, r, slot) ==
    r.res = "InsufficientFunds" =>
       /\ r.rec = Records[kind]
       /\ r.rec.status = "Listed"
       /\ r.rec[slot] = NoUser
       /\ \A k \in KeySlots(kind) : r.rec[k] = EmptyKey
       /\ r.ledger = ledger

\* C15: when accept fails with InsufficientFunds, the deal record is untouched (status
\* Listed, counterparty unset, no key issued) and no balance changes.
C15_FailedAcceptLeavesRecord ==
    /\ offer # NoRecord =>
          \A b \in OfferBuyers : LeftUntouched("offer", AcceptOfferCall(b), "buyer")
    /\ request # NoRecord =>
          \A x \in RequestSellers : LeftUntouched("request", AcceptRequestCall(x), "seller")
    /\ shipment # NoRecord =>
          \A c \in ShipmentCarriers :
             LeftUntouched("shipment", AcceptShipmentCall(c), "carrier")

\* a successful cancel paid the initiator what the listing had locked and emptied custody
CanceledExactly(kind, r, initiator) ==
    r.res = "Ok" =>
       /\ get_balance(r.ledger, initiator) = get_balance(ledger, initiator) + locked[kind]
       /\ get_balance(r.ledger, Records[kind].escrow_id) = 0
       /\ r.rec.status = "Canceled"

\* C16: a successful cancel of a Listed deal returns to the initiator the full amount
\* locked at list, leaves the deal's custody balance at 0 and sets the status to Canceled.
\* The request is cancelled by its own buyer, naming the buyer's account.
C16_CancelReturnsWholeLock ==
    /\ offer # NoRecord => CanceledExactly("offer", CancelOfferCall, offer.seller.pubkey)
    /\ request # NoRecord =>
          CanceledExactly("request", CancelRequestCall(request.buyer.pubkey),
                          request.buyer.pubkey)
    /\ shipment # NoRecord =>
          CanceledExactly("shipment", CancelShipmentCall, shipment.sender.pubkey)

\* a successful cancel was of a Listed deal, raised no balance but the initiator's, and
\* left the parties carried by the record as they were
CancelPaysOnly(kind, r, initiator, parties) ==
    r.res = "Ok" =>
       /\ Records[kind].status = "Listed"
       /\ \A a \in Accounts :
             get_balance(r.ledger, a) > get_balance(ledger, a) => a = initiator
       /\ \A p \in parties : r.rec[p] = Records[kind][p]

\* C17: cancel succeeds only while the deal is Listed, and the only account whose balance
\* increases is the initiator's (seller of an Offer, buyer of a Request, sender of a
\* Shipment); no reputation counter or user status changes.
C17_CancelPaysInitiatorOnly ==
    /\ offer # NoRecord =>
          CancelPaysOnly("offer", CancelOfferCall, offer.seller.pubkey, {"seller", "buyer"})
    /\ request # NoRecord =>
          \A a \in {request.buyer.pubkey} \cup RequestSellers :
             CancelPaysOnly("request", CancelRequestCall(a), request.buyer.pubkey,
                            {"seller", "buyer"})
    /\ shipment # NoRecord =>
          CancelPaysOnly("shipment", CancelShipmentCall, shipment.sender.pubkey,
                         {"sender", "carrier"})

\* the current time is not past the scheduled time plus the 24 hours of grace
WithinGrace(kind) == now * HoursPerTick <= Deadline(kind) + GraceHours

\* C18: while the current time is not past the scheduled time plus 24 hours, expire is
\* refused for the time (the "hasn't expired yet" error, OperationNotAllowed), moves no
\* funds and leaves the record unchanged, whatever the status of the record.
C18_EarlyExpireIsRefused ==
    /\ offer # NoRecord /\ WithinGrace("offer") =>
          RefusedWith("offer", Outcome(ExpireOfferCall), "OperationNotAllowed")
    /\ request # NoRecord /\ WithinGrace("request") =>
          RefusedWith("request", Outcome(ExpireRequestCall), "OperationNotAllowed")
    /\ shipment # NoRecord /\ WithinGrace("shipment") =>
          RefusedWith("shipment", Outcome(ExpireShipmentCall), "OperationNotAllowed")

\* an expire inside the window has just been refused on a request that was already
\* cancelled, and the refusal moved nothing
C18_Witness ==
    /\ request # NoRecord
    /\ request.status = "Canceled"
    /\ WithinGrace("request")
    /\ last = Result("ExpireRequest", "OperationNotAllowed")

\* the record is Accepted and its custody account holds everything locked for it
AcceptedAndFunded(kind) ==
    /\ Records[kind] # NoRecord
    /\ Records[kind].status = "Accepted"
    /\ Custody(kind) = locked[kind]

ExpireResult(kind) ==
    IF kind = "offer" THEN ExpireOfferCall.res
    ELSE IF kind = "request" THEN ExpireRequestCall.res ELSE ExpireShipmentCall.res

ExpireOutcome(kind) ==
    IF kind = "offer" THEN Outcome(ExpireOfferCall)
    ELSE IF kind = "request" THEN Outcome(ExpireRequestCall) ELSE Outcome(ExpireShipmentCall)

\* C20: expire succeeds at most once on a record. A successful expire leaves the record
\* Expired, and on an Expired record every further expire is refused for the status,
\* moves no funds and leaves the record as it is.
C20_ExpireSucceedsOnce ==
    \A kind \in Kinds :
        Records[kind] # NoRecord =>
           /\ ExpireOutcome(kind).res = "Ok" => ExpireOutcome(kind).rec.status = "Expired"
           /\ Records[kind].status = "Expired" =>
                 RefusedWith(kind, ExpireOutcome(kind), "IncorrectState")

\* a shipment that was expired has just had a further expire refused
C20_Witness ==
    /\ shipment # NoRecord
    /\ shipment.status = "Expired"
    /\ last = Result("ExpireShipment", "IncorrectState")

\* the reputation counters and the status of a participant, as a record carries them
Reputation(u) ==
    IF u = NoUser THEN u
    ELSE [status |-> u.status,
          total_deals |-> u.total_deals, successful_deals |-> u.successful_deals,
          failed_deals |-> u.failed_deals, total_shipments |-> u.total_shipments,
          successful_shipments |-> u.successful_shipments,
          failed_shipments |-> u.failed_shipments]

\* a successful expire paid the initiator and the counterparty the given amounts out of
\* custody and nothing to anyone else, emptied custody, and marked nobody
ExpiredExactly(kind, r, initiator, counterparty, to_initiator, to_counterparty) ==
    r.res = "Ok" =>
       /\ get_balance(r.ledger, Records[kind][initiator].pubkey)
             = get_balance(ledger, Records[kind][initiator].pubkey) + to_initiator
       /\ get_balance(r.ledger, Records[kind][counterparty].pubkey)
             = get_balance(ledger, Records[kind][counterparty].pubkey) + to_counterparty
       /\ get_balance(r.ledger, Records[kind].escrow_id) = 0
       /\ \A a \in Accounts \ {Records[kind][initiator].pubkey,
                               Records[kind][counterparty].pubkey, Records[kind].escrow_id} :
             get_balance(r.ledger, a) = get_balance(ledger, a)
       /\ Reputation(r.rec[initiator]) = Reputation(Records[kind][initiator])
       /\ Reputation(r.rec[counterparty]) = Reputation(Records[kind][counterparty])
       /\ r.rec.status = "Expired"

\* C21: a successful expire returns to each party exactly what it locked (Offer and
\* Request: payment + insurance to the buyer, insurance to the seller; Shipment: payment
\* to the sender, insurance to the carrier), leaves custody at 0, sends nothing to the
\* penalty account, changes no reputation counter or status, and sets the status Expired.
C21_ExpireRefundsExactly ==
    /\ offer # NoRecord =>
          ExpiredExactly("offer", ExpireOfferCall, "seller", "buyer",
                         offer.insurance, offer.payment + offer.insurance)
    /\ request # NoRecord =>
          ExpiredExactly("request", ExpireRequestCall, "buyer", "seller",
                         request.payment + request.insurance, request.insurance)
    /\ shipment # NoRecord =>
          ExpiredExactly("shipment", ExpireShipmentCall, "sender", "carrier",
                         shipment.payment, shipment.insurance)

\* an offer was expired: custody is empty again and the penalty account got nothing
C21_Witness ==
    /\ offer # NoRecord
    /\ offer.status = "Expired"
    /\ last = Result("ExpireOffer", "Ok")
    /\ get_balance(ledger, offer.escrow_id) = 0
    /\ get_balance(ledger, PENALTY_ACCOUNT) = 0
    /\ get_balance(ledger, offer.buyer.pubkey) = InitialBalance

\* C22: every Accepted deal can be closed by timeout: once the current time is past the
\* scheduled time plus 24 hours, expire succeeds on it, whatever complete, fail or expire
\* attempts were refused on the deal before.
C22_AcceptedCanAlwaysExpire ==
    \A kind \in Kinds :
        /\ Records[kind] # NoRecord
        /\ Records[kind].status = "Accepted"
        /\ now * HoursPerTick > Deadline(kind) + GraceHours
        => ExpireResult(kind) = "Ok"

\* C23: fail succeeds only when the status is Accepted and the first-stage secret (the
\* carrier's key of a Shipment; for an Offer or a Request, one of the two keys) has
\* already been consumed, so that its slot is empty; with every issued key still in its
\* slot, fail is rejected.
C23_FailNeedsFirstStageConsumed ==
    /\ shipment # NoRecord =>
          \A ks \in PresentableKeys("shipment") :
             FailShipmentCall(ks).res = "Ok" =>
                shipment.status = "Accepted" /\ shipment.carrier_key = EmptyKey
    /\ offer # NoRecord =>
          \A ks \in PresentableKeys("offer") :
             FailOfferCall(ks).res = "Ok" =>
                /\ offer.status = "Accepted"
                /\ \E slot \in KeySlots("offer") : offer[slot] = EmptyKey
    /\ request # NoRecord =>
          \A ks \in PresentableKeys("request") :
             FailRequestCall(ks).res = "Ok" =>
                /\ request.status = "Accepted"
                /\ \E slot \in KeySlots("request") : request[slot] = EmptyKey

\* a successful fail moved everything custody held, which is everything locked for the
\* deal, to the penalty account and nothing anywhere else, and closed the record
FailedExactly(kind, r) ==
    r.res = "Ok" =>
       /\ Custody(kind) = locked[kind]
       /\ Moved(ledger, r.ledger, Records[kind].escrow_id, PENALTY_ACCOUNT, Custody(kind))
       /\ get_balance(r.ledger, Records[kind].escrow_id) = 0
       /\ \A slot \in KeySlots(kind) : r.rec[slot] = EmptyKey
       /\ r.rec.status = "Failed"

FailMarks(kind) == IF kind = "shipment" THEN "carrier" ELSE "buyer"

\* the Failed deals in which the participant is the marked party
FailedAgainst(u) ==
    {kind \in Kinds : /\ Records[kind] # NoRecord
                      /\ Records[kind].status = "Failed"
                      /\ Records[kind][FailMarks(kind)].pubkey = u}

FailedOutcomes(u) == u.failed_deals + u.failed_shipments
Outcomes(u) == u.total_deals + u.total_shipments

\* the participant a fail call returns is the one it was given, with one more failed
\* outcome when the fail succeeded and as it was when the fail was refused
MarkedOnce(r, given, marked) ==
    /\ r.res = "Ok" => /\ FailedOutcomes(marked) = FailedOutcomes(given) + 1
                       /\ Outcomes(marked) = Outcomes(given) + 1
    /\ r.res # "Ok" => marked = given

\* C25: a successful fail records exactly one failed outcome, on the counterparty of the
\* deal, and changes the counters of nobody else; a refused fail changes no counter. So
\* every participant carries as many failed outcomes as there are Failed deals against it.
C25_FailMarksCounterpartyOnce ==
    /\ \A u \in Participants : FailedOutcomes(users[u]) = Cardinality(FailedAgainst(u))
    /\ offer # NoRecord =>
          \A ks \in PresentableKeys("offer") :
             MarkedOnce(FailOfferCall(ks), users[PartyKey(offer.buyer, OfferBuyers)],
                        FailOfferCall(ks).buyer)
    /\ request # NoRecord =>
          \A ks \in PresentableKeys("request") :
             MarkedOnce(FailRequestCall(ks), users[request.buyer.pubkey],
                        FailRequestCall(ks).buyer)
    /\ shipment # NoRecord =>
          \A ks \in PresentableKeys("shipment") :
             MarkedOnce(FailShipmentCall(ks),
                        users[PartyKey(shipment.carrier, ShipmentCarriers)],
                        FailShipmentCall(ks).carrier)

\* a request has just failed and its buyer carries the one failed outcome
C25_Witness ==
    /\ request # NoRecord
    /\ request.status = "Failed"
    /\ last = Result("FailRequest", "Ok")
    /\ FailedOutcomes(users[request.buyer.pubkey]) = 1
    /\ \A u \in Participants \ {request.buyer.pubkey} : FailedOutcomes(users[u]) = 0

\* C26 as stated: the insurance of every record, a Shipment included, equals its payment.
C26_InsuranceEqualsPayment ==
    \A kind \in Kinds :
        Records[kind] # NoRecord => Records[kind].insurance = Records[kind].payment

\* a step leaves the payment and the insurance of an existing record as they are
AmountsKept(before, after) ==
    before # NoRecord =>
       /\ after # NoRecord
       /\ after.payment = before.payment
       /\ after.insurance = before.insurance

\* C26 as the code has it: the insurance of every Offer and Request equals its payment
\* from the listing on; the insurance of a Shipment is the amount its sender passed to
\* list; and no step changes the payment or the insurance of a record of any kind.
C26_AmountsFixedAtList ==
    [][/\ offer' # NoRecord => offer'.insurance = offer'.payment
       /\ request' # NoRecord => request'.insurance = request'.payment
       /\ AmountsKept(offer, offer')
       /\ AmountsKept(request, request')
       /\ AmountsKept(shipment, shipment')]_vars

\* a request went from its listing to Failed with its two amounts still equal
C26_Witness ==
    /\ request # NoRecord
    /\ request.status = "Failed"
    /\ request.insurance = request.payment
    /\ locked["request"] = request.payment + request.insurance + request.insurance

\* the status the specification states for a participant with the given numbers of
\* operations, with the success rate compared as an exact fraction
StatedStatus(totalOps, successfulOps) ==
    IF totalOps < 3 THEN "New"
    ELSE IF totalOps > 10 /\ successfulOps = totalOps THEN "Credible"
    ELSE IF 10 * successfulOps >= 9 * totalOps THEN "Reliable"
    ELSE IF 10 * successfulOps >= 7 * totalOps THEN "Risky"
    ELSE IF 10 * successfulOps >= 5 * totalOps THEN "Unreliable"
    ELSE IF 10 * successfulOps >= 2 * totalOps THEN "Suspicious"
    ELSE "Fraud"

DealCounters(u) == <<u.total_deals, u.successful_deals, u.failed_deals>>
ShipmentCounters(u) == <<u.total_shipments, u.successful_shipments, u.failed_shipments>>

\* the outcome of a Shipment transition went to the shipment counters of the participant
\* and left its deal counters alone
CountedAsShipment(given, marked) ==
    /\ DealCounters(marked) = DealCounters(given)
    /\ ShipmentCounters(marked) # ShipmentCounters(given)

\* the outcome of an Offer or Request transition went to the deal counters
CountedAsDeal(given, marked) ==
    /\ ShipmentCounters(marked) = ShipmentCounters(given)
    /\ DealCounters(marked) # DealCounters(given)

\* C28: the outcome of a successful Shipment transition (complete, fail) is recorded in
\* the shipment counters of the participants it marks and changes none of their deal
\* counters; the outcome of an Offer or Request transition is recorded in the deal
\* counters and changes no shipment counter.
C28_OutcomesCountedByKind ==
    /\ shipment # NoRecord =>
          /\ \A kc \in PresentableKeys("shipment"), kr \in PresentableKeys("shipment") :
                LET r == CompleteShipmentCall(kc, kr) IN
                r.res = "Ok" =>
                   /\ CountedAsShipment(users[r.sender.pubkey], r.sender)
                   /\ CountedAsShipment(users[r.carrier.pubkey], r.carrier)
          /\ \A ks \in PresentableKeys("shipment") :
                LET r == FailShipmentCall(ks) IN
                r.res = "Ok" => CountedAsShipment(users[r.carrier.pubkey], r.carrier)
    /\ offer # NoRecord =>
          /\ \A kb \in PresentableKeys("offer"), ks \in PresentableKeys("offer") :
                LET r == CompleteOfferCall(kb, ks) IN
                r.res = "Ok" =>
                   /\ CountedAsDeal(users[r.seller.pubkey], r.seller)
                   /\ CountedAsDeal(users[r.buyer.pubkey], r.buyer)
          /\ \A ks \in PresentableKeys("offer") :
                LET r == FailOfferCall(ks) IN
                r.res = "Ok" => CountedAsDeal(users[r.buyer.pubkey], r.buyer)
    /\ request # NoRecord =>
          /\ \A kb \in PresentableKeys("request"), ks \in PresentableKeys("request") :
                LET r == CompleteRequestCall(kb, ks) IN
                r.res = "Ok" =>
                   /\ CountedAsDeal(users[r.seller.pubkey], r.seller)
                   /\ CountedAsDeal(users[r.buyer.pubkey], r.buyer)
          /\ \A ks \in PresentableKeys("request") :
                LET r == FailRequestCall(ks) IN
                r.res = "Ok" => CountedAsDeal(users[r.buyer.pubkey], r.buyer)

\* the parties of a deal of the kind: the fields of the record that carry a participant
Parties(kind) ==
    IF kind = "shipment" THEN {"sender", "carrier", "recipient"} ELSE {"seller", "buyer"}

\* the Completed deals the participant is a party of
CompletedWith(u) ==
    {kind \in Kinds : /\ Records[kind] # NoRecord
                      /\ Records[kind].status = "Completed"
                      /\ \E party \in Parties(kind) : Records[kind][party].pubkey = u}

SuccessfulOutcomes(u) == u.successful_deals + u.successful_shipments

\* C29: a successful complete adds exactly one successful outcome to every participant
\* involved in the deal (seller and buyer; sender, carrier and recipient) and no failed
\* outcome to anyone, and a refused complete changes no counter. So every participant
\* carries as many successful outcomes as there are Completed deals it is a party of, and
\* as many failed outcomes as there are Failed deals against it.
C29_CompleteMarksEveryParty ==
    \A u \in Participants :
        /\ SuccessfulOutcomes(users[u]) = Cardinality(CompletedWith(u))
        /\ FailedOutcomes(users[u]) = Cardinality(FailedAgainst(u))

\* what complete releases when it succeeds
ReleaseTotal(kind) ==
    IF kind = "shipment" THEN Records[kind].payment + Records[kind].insurance
    ELSE Records[kind].payment + 2 * Records[kind].insurance

\* the ledger with the custody account of the deal holding the given balance; a custody
\* account holds less than the deal locked after a refused complete has paid out of it,
\* or when other deals reference it
WithCustody(kind, balance) == [ledger EXCEPT ![Records[kind].escrow_id] = balance]

\* complete on the given ledger, with the accounts and users the command passes
CompleteOn(kind, l, first_key, second_key) ==
    IF kind = "offer"
    THEN complete_offer(offer, first_key, second_key, offer.seller.pubkey,
                        PartyKey(offer.buyer, OfferBuyers), offer.escrow_id,
                        users[offer.seller.pubkey],
                        users[PartyKey(offer.buyer, OfferBuyers)], l)
    ELSE IF kind = "request"
    THEN complete_request(request, first_key, second_key,
                          PartyKey(request.seller, RequestSellers), request.buyer.pubkey,
                          request.escrow_id, users[PartyKey(request.seller, RequestSellers)],
                          users[request.buyer.pubkey], l)
    ELSE complete_shipment(shipment, first_key, second_key, shipment.sender.pubkey,
                           PartyKey(shipment.carrier, ShipmentCarriers), shipment.escrow_id,
                           users[shipment.sender.pubkey],
                           users[PartyKey(shipment.carrier, ShipmentCarriers)], l)

\* the key complete compares before it looks at the custody balance
FirstKey(kind) == IF kind = "shipment" THEN shipment.carrier_key ELSE Records[kind].buyer_key

\* C30: when complete is called on an Accepted deal with the issued first key and the
\* custody balance is below the release total (payment + 2 x insurance for an Offer or
\* a Request, payment + insurance for a Shipment), it fails with InsufficientFunds, no
\* funds move, no key slot is consumed and the status stays Accepted, whatever the other
\* key presented.
C30_ShortCustodyRefusesComplete ==
    \A kind \in Kinds :
        Records[kind] # NoRecord /\ Records[kind].status = "Accepted" =>
           \A balance \in 0 .. (ReleaseTotal(kind) - 1), second_key \in PresentableKeys(kind) :
              LET r == CompleteOn(kind, WithCustody(kind, balance), FirstKey(kind), second_key)
              IN /\ r.res = "InsufficientFunds"
                 /\ r.ledger = WithCustody(kind, balance)
                 /\ r.rec = Records[kind]
                 /\ r.rec.status = "Accepted"
                 /\ \A slot \in KeySlots(kind) : r.rec[slot] # EmptyKey

\* a complete has just been refused for the custody balance on an Accepted request whose
\* custody account holds less than the release total
C30_Witness ==
    /\ request # NoRecord
    /\ request.status = "Accepted"
    /\ Custody("request") < ReleaseTotal("request")
    /\ last = Result("CompleteRequest", "InsufficientFunds")

\* the accept of the other counterparty on a deal that one accept has won is refused for
\* the status: nothing of the loser is locked, and the record keeps the winner and the
\* keys issued to it
LoserRefused(kind, r) ==
    /\ RefusedWith(kind, Outcome(r), "IncorrectState")
    /\ \A slot \in KeySlots(kind) : r.rec[slot] = Records[kind][slot]

\* C31: when two different counterparties both submit accept for the same Listed deal,
\* in either order, the accept that comes second fails with IncorrectState, locks none
\* of its funds and leaves the counterparty and the keys of the first; at most one accept
\* succeeds on a deal.
C31_OneAcceptWins ==
    /\ \A kind \in Kinds : nonce[kind] <= 1
    /\ offer # NoRecord /\ offer.status = "Accepted" =>
          \A b \in RaceOfferBuyers \ {offer.buyer.pubkey} :
             /\ LoserRefused("offer", AcceptOfferCall(b))
             /\ AcceptOfferCall(b).rec.buyer = offer.buyer
    /\ request # NoRecord /\ request.status = "Accepted" =>
          \A x \in RaceRequestSellers \ {request.seller.pubkey} :
             /\ LoserRefused("request", AcceptRequestCall(x))
             /\ AcceptRequestCall(x).rec.seller = request.seller
    /\ shipment # NoRecord /\ shipment.status = "Accepted" =>
          \A c \in RaceShipmentCarriers \ {shipment.carrier.pubkey} :
             /\ LoserRefused("shipment", AcceptShipmentCall(c))
             /\ AcceptShipmentCall(c).rec.carrier = shipment.carrier

\* carol won the request and the accept that came after it was refused; the other
\* seller, alice, has nothing locked
C31_Witness ==
    /\ request # NoRecord
    /\ request.status = "Accepted"
    /\ request.seller.pubkey = "carol"
    /\ last = Result("AcceptRequest", "IncorrectState")
    /\ get_balance(ledger, "alice") = InitialBalance

\* a list or accept whose custody lock failed left the participant it was given, the
\* ledger and the record as they were before the call
NothingMoved(r, given, after, record) ==
    r.res = "LedgerError" =>
       /\ after = given
       /\ r.ledger = ledger
       /\ r.rec = record

\* C32: if the custody lock (the ledger transfer) fails during list or accept, the
\* operation returns that error and nothing has moved: the participant's wallet balance,
\* all ledger balances and the deal record are the same as before the call.
C32_FailedLockMovesNothing ==
    /\ \A s \in OfferSellers, p \in Amounts, m \in MeetingTimes :
          LET r == ListOfferCall(s, p, m) IN NothingMoved(r, users[s], r.seller, NoRecord)
    /\ \A b \in RequestBuyers, p \in Amounts, m \in MeetingTimes :
          LET r == ListRequestCall(b, p, m) IN NothingMoved(r, users[b], r.buyer, NoRecord)
    /\ \A s \in ShipmentSenders, rc \in ShipmentRecipients, p \in Amounts, i \in Amounts,
          d \in MeetingTimes :
          LET r == ListShipmentCall(s, rc, p, i, d)
          IN NothingMoved(r, users[s], r.sender, NoRecord)
    /\ offer # NoRecord =>
          \A b \in OfferBuyers :
             LET r == AcceptOfferCall(b) IN NothingMoved(r, users[b], r.buyer, offer)
    /\ request # NoRecord =>
          \A x \in RequestSellers :
             LET r == AcceptRequestCall(x) IN NothingMoved(r, users[x], r.seller, request)
    /\ shipment # NoRecord =>
          \A c \in ShipmentCarriers :
             LET r == AcceptShipmentCall(c) IN NothingMoved(r, users[c], r.carrier, shipment)

\* the participants the record names as seller, buyer, sender or carrier
RecordedParties(kind) ==
    {Records[kind][party].pubkey : party \in Parties(kind) \ {"recipient"}} \ {NoUser.pubkey}

\* the call paid nothing to the account
NotPaid(r, account) == get_balance(r.ledger, account) <= get_balance(ledger, account)

\* C33: funds released from custody by complete, expire or cancel are credited only to
\* accounts of the participants recorded in the deal: a command that names as payee an
\* account of somebody else does not get custody funds paid to it.
C33_PayeesAreRecorded ==
    /\ offer # NoRecord =>
          \A a \in Participants \ RecordedParties("offer") :
             /\ NotPaid(cancel_offer(offer, a, offer.escrow_id, ledger), a)
             /\ NotPaid(expire_offer(offer, offer.escrow_id, a, a, now, ledger), a)
             /\ NotPaid(complete_offer(offer, offer.buyer_key, offer.seller_key, a, a,
                                       offer.escrow_id, users[a], users[a], ledger), a)
    /\ request # NoRecord =>
          \A a \in Participants \ RecordedParties("request") :
             /\ NotPaid(cancel_request(request, a, request.escrow_id, ledger), a)
             /\ NotPaid(expire_request(request, request.escrow_id, a, a, now, ledger), a)
             /\ NotPaid(complete_request(request, request.buyer_key, request.seller_key, a, a,
                                         request.escrow_id, users[a], users[a], ledger), a)
    /\ shipment # NoRecord =>
          \A a \in Participants \ RecordedParties("shipment") :
             /\ NotPaid(cancel_shipment(shipment, a, shipment.escrow_id, ledger), a)
             /\ NotPaid(expire_shipment(shipment, shipment.escrow_id, a, a, now, ledger), a)
             /\ NotPaid(complete_shipment(shipment, shipment.carrier_key,
                                          shipment.recipient_key, a, a, shipment.escrow_id,
                                          users[a], users[a], ledger), a)

\* the strings the generate calls made so far have drawn
IssuedStrings == {new_uuid(g, slot) : g \in 0 .. (km.generated - 1), slot \in 0 .. 2}

\* C35: validate_and_use_key returns true only for a string that an earlier generate call
\* returned and that has not been consumed: a string never issued is always rejected, and
\* the empty string is never accepted, also after a consumption has cleared some slot.
C35_OnlyIssuedKeysAccepted ==
    /\ validated.true_for \subseteq IssuedStrings
    /\ \A key \in KmKeys :
          validate_and_use_key(km, key).res =>
             /\ key \in IssuedStrings
             /\ key \notin validated.true_for

\* the stored wallet balance of the participant changes by what its ledger balance changes
SameChange(p) ==
    users'[p].wallet_balance - users[p].wallet_balance
        = get_balance(ledger', p) - get_balance(ledger, p)

\* C34: for every participant and every successful command, the wallet balance stored in
\* the participant's record changes by exactly the amount its ledger balance changes by,
\* so the two stay equal when they start equal.
C34_StoredWalletFollowsLedger ==
    [][last'.res = "Ok" => \A p \in Participants : SameChange(p)]_vars

\* the secret slots of the record that hold an issued (non-empty) key
IssuedSlots(kind) == {slot \in KeySlots(kind) : Records[kind][slot] # EmptyKey}

\* C36: in every reachable state of a deal its secret slots are issued exactly when its
\* status is Accepted: all of them are empty while Listed and in every terminal status,
\* Expired included.
C36_SlotsIssuedIffAccepted ==
    \A kind \in {"offer", "request", "shipment"} :
       Records[kind] # NoRecord =>
          /\ Records[kind].status = "Accepted" => IssuedSlots(kind) # {}
          /\ Records[kind].status # "Accepted" => IssuedSlots(kind) = {}

\* the accept went past its sufficiency check and subtracted from the wallet balance
Debited(r) == r.res \in {"Ok", "LedgerError"}

\* the stored wallet balance of the account holds the amount
Holds(account, amount) == users[account].wallet_balance >= amount

\* C37: no accept subtracts from the counterparty's recorded wallet balance more than it
\* holds: whenever accept of an offer, a request or a shipment debits the wallet balance,
\* the balance was at least the amount debited.
C37_AcceptDebitsWithinBalance ==
    /\ offer # NoRecord =>
          \A b \in OfferBuyers :
             Debited(AcceptOfferCall(b)) => Holds(b, offer.payment + offer.insurance)
    /\ request # NoRecord =>
          \A s \in RequestSellers :
             Debited(AcceptRequestCall(s)) => Holds(s, request.insurance)
    /\ shipment # NoRecord =>
          \A c \in ShipmentCarriers :
             Debited(AcceptShipmentCall(c)) => Holds(c, shipment.insurance)

---------------------------------------------------------------------------
(* the Request commands with payments from the whole u64 range *)

\* the ordinary payments and one whose double exceeds the u64 range
WidePayments == Amounts \cup {(U64Modulus + 1) \div 2}

\* the ListRequest command in a build with (overflow_checks) or without overflow checks:
\* with them `2 * payment` panics when it leaves the u64 range and the command aborts,
\* without them it wraps
ListRequestWide(buyer_account_key, payment, meeting_datetime, overflow_checks) ==
    IF overflow_checks /\ 2 * payment >= U64Modulus
    THEN /\ request = NoRecord
         /\ Listed < MaxDeals
         /\ last' = Result("ListRequest", "Panic")
         /\ UNCHANGED <<ledger, users, offer, request, shipment, nonce, now, locked, km, validated, settled, released, paid>>
    ELSE ListRequest(buyer_account_key, payment, meeting_datetime)

NextWide ==
    \/ \E b \in RequestBuyers, p \in WidePayments, m \in MeetingTimes, c \in BOOLEAN :
          ListRequestWide(b, p, m, c)
    \/ \E s \in RequestSellers : AcceptRequest(s)
    \/ /\ request # NoRecord
       /\ \E kb \in KeyGuesses(request.buyer_key), ks \in KeyGuesses(request.seller_key) :
             CompleteRequest(kb, ks)
    \/ /\ request # NoRecord
       /\ \E ks \in KeyGuesses(request.seller_key) : FailRequest(ks)
    \/ ExpireRequest
    \/ /\ request # NoRecord
       /\ \E a \in {request.buyer.pubkey} \cup RequestSellers : CancelRequest(a)
    \/ Tick

SpecWide == Init /\ [][NextWide]_vars

\* C38: the lock and check totals payment + insurance and payment + 2 x insurance are
\* never computed with u64 wraparound: a list that succeeds has locked the mathematical
\* sum of the payment and the insurance it records, and an accepted request holds the
\* mathematical sum payment + 2 x insurance.
C38_TotalsAreMathematicalSums ==
    request # NoRecord =>
       /\ last = Result("ListRequest", "Ok") =>
             locked["request"] = request.payment + request.insurance
       /\ last = Result("AcceptRequest", "Ok") =>
             locked["request"] = request.payment + 2 * request.insurance

\* the totals of the participant are the sums of its successful and failed counters
TotalsAreSums(u) ==
    /\ u.total_deals = u.successful_deals + u.failed_deals
    /\ u.total_shipments = u.successful_shipments + u.failed_shipments

\* from before to after, total went up by 1 and exactly one of successful, failed went up by 1
CountedOnce(before, after) ==
    /\ after[1] = before[1] + 1
    /\ \/ after[2] = before[2] + 1 /\ after[3] = before[3]
       \/ after[2] = before[2] /\ after[3] = before[3] + 1

\* C39: for every participant, after any sequence of mark_deal and mark_shipment calls,
\* total_deals = successful_deals + failed_deals and total_shipments = successful_shipments
\* + failed_shipments; each mark call increases exactly one total counter by exactly 1 and
\* exactly one of the matching successful/failed counters by 1, and leaves the counters of
\* the other kind alone.
C39_MarkCountsOnceAndTotalsAdd ==
    [][\A p \in Participants :
          /\ TotalsAreSums(users[p]) /\ TotalsAreSums(users'[p])
          /\ users'[p] # users[p] =>
                \/ /\ last'.op = "mark_deal"
                   /\ CountedOnce(DealCounters(users[p]), DealCounters(users'[p]))
                   /\ ShipmentCounters(users'[p]) = ShipmentCounters(users[p])
                \/ /\ last'.op = "mark_shipment"
                   /\ CountedOnce(ShipmentCounters(users[p]), ShipmentCounters(users'[p]))
                   /\ DealCounters(users'[p]) = DealCounters(users[p])]_vars

\* a participant with a successful and a failed outcome of both kinds
C39_Witness ==
    \E p \in MarkedParticipants :
       /\ users[p].successful_deals >= 1 /\ users[p].failed_deals >= 1
       /\ users[p].successful_shipments >= 1 /\ users[p].failed_shipments >= 1
       /\ users[p].total_deals + users[p].total_shipments = MaxOutcomes

====
